---- MODULE Spec2Model ----
(***************************************************************************)
(* A model of the claim decision workflow of auto_insurance_claim_agent:   *)
(*                                                                         *)
(*   - the deterministic LangGraph engine (pipelines/langchain_pipeline):  *)
(*     the eight graph nodes, the two conditional routers, the step limit  *)
(*     of graph.invoke and the trace attachment in process_claim;          *)
(*   - the stage tools it calls (core/validation.py, core/retrieval.py,    *)
(*     web_search_repair_cost);                                            *)
(*   - the output-recovery pipeline of the autonomous strategy             *)
(*     (SmolAgentsPipeline._parse_decision and its helpers).               *)
(*                                                                         *)
(* Strings that the code builds with f-strings are sequences of string     *)
(* pieces (the literal parts and the formatted values), so "notes contain  *)
(* the reason" is containment of one sequence in another.  Money is in     *)
(* whole dollars.  Dates are day ordinals; their ISO text is DateStr.      *)
(* Python's Optional[x] is a sequence: <<>> for None, <<v>> for a value.   *)
(***************************************************************************)
EXTENDS Integers, Sequences, FiniteSets, TLC

VARIABLES
    claim_in,         \* the ClaimInfo handed to process_claim
    recursion_limit,  \* cfg.pipeline.graph.recursion_limit
    tick,             \* what time.time() - entered_at measures in this run
    pc,               \* the graph node to run next, "END", "returned" or "raised"
    steps,            \* supersteps graph.invoke has executed
    state,            \* the LangGraph ClaimState (keys = the keys that are set)
    result,           \* Optional: the Decision process_claim returned
    error,            \* the exception that left process_claim ("" if none)
    lookup,           \* Optional: what validate_claim found in the coverage CSV
    searched,         \* Optional: what the web search gave the price check
    http,             \* Optional: the response of POST /claims/process
    calls,            \* what the run's capability calls met and were handed
    runs,             \* the claims one pipeline instance runs concurrently
    raw_text,         \* recovery pipeline: the agent's final answer (chunks)
    rp_pc,            \* recovery pipeline: position inside _parse_decision
    rp_tiers,         \* recovery pipeline: the tiers entered so far, in order
    rp_json,          \* recovery pipeline: what _extract_json returned
    rp_result,        \* recovery pipeline: Optional Decision returned
    rp_error,         \* recovery pipeline: exception that escaped ("" if none)
    tool,             \* Optional: one call of the price tool of each strategy
    client            \* Optional: one call of the frontend's API client

engine_vars ==
    <<claim_in, recursion_limit, tick, pc, steps, state, result, error, lookup,
      searched, http, calls, runs>>
rp_vars == <<raw_text, rp_pc, rp_tiers, rp_json, rp_result, rp_error>>
\* The components around the two strategies' workflow.
outside_vars == <<tool, client>>
vars == <<claim_in, recursion_limit, tick, pc, steps, state, result, error, lookup,
          searched, http, calls, runs, raw_text, rp_pc, rp_tiers, rp_json, rp_result, rp_error,
          tool, client>>

-----------------------------------------------------------------------------
(* Bounds of the model *)

\* Dates of loss and coverage dates range over the days 1..MaxDay.
MaxDay == 4
\* The coverage CSV holds at most MaxRows policy rows.
MaxRows == 2
\* A step limit that is too small for the longest path (an operator's choice).
TightRecursionLimit == 4
\* The agent's final answers are all texts of at most MaxLen chunks (and the
\* longer example texts named below).
MaxLen == 4
MaxFuzzyLen == 3

(* Program constants *)

\* recursion_limit of the shipped configuration
DefaultRecursionLimit == 25
\* inflation_threshold 0.40, in percent
ThresholdPct == 40
\* _extract_dollar_amounts keeps 50 <= a <= 200_000
MinPlausible == 50
MaxPlausible == 200000
\* the raw-output excerpt of the fallback notes: text[:300]
ExcerptLimit == 300

-----------------------------------------------------------------------------
(* Generic helpers *)

None == <<>>
Some(v) == <<v>>

RECURSIVE SumSeq(_)
SumSeq(s) == IF s = <<>> THEN 0 ELSE Head(s) + SumSeq(Tail(s))

RECURSIVE Flatten(_)
Flatten(ss) == IF ss = <<>> THEN <<>> ELSE Head(ss) \o Flatten(Tail(ss))

Range(s) == { s[i] : i \in 1..Len(s) }

\* Python's sub in text for texts that are sequences of pieces.
Contains(text, sub) ==
    \E i \in 0..(Len(text) - Len(sub)) :
        \A j \in 1..Len(sub) : text[i + j] = sub[j]

SeqsUpTo(S, n) == UNION { [1..k -> S] : k \in 0..n }

-----------------------------------------------------------------------------
(* Inputs: claims, configuration, the coverage CSV *)

ClaimNumbers == {"CLM-1", "CLM-2"}
ClaimPolicies == {"PN-1", "PN-9"}
Days == 1..MaxDay
RepairCosts == {1500, 1540, 1600}

\* ClaimInfo (schemas/claim.py): estimated_repair_cost > 0.
ClaimInfo ==
    [claim_number : ClaimNumbers, policy_number : ClaimPolicies,
     date_of_loss : Days, estimated_repair_cost : RepairCosts]

DateStr(d) == ToString(d)
ParseDate(s) == CHOOSE d \in Days : DateStr(d) = s

\* claim.model_dump(mode="json"): the date becomes its ISO text.
model_dump(claim) ==
    [claim_number |-> claim.claim_number, policy_number |-> claim.policy_number,
     date_of_loss |-> DateStr(claim.date_of_loss),
     estimated_repair_cost |-> claim.estimated_repair_cost]

\* ClaimInfo(**claim_data): the ISO text becomes a date again.
parse_claim(claim_data) ==
    [claim_number |-> claim_data.claim_number,
     policy_number |-> claim_data.policy_number,
     date_of_loss |-> ParseDate(claim_data.date_of_loss),
     estimated_repair_cost |-> claim_data.estimated_repair_cost]

RecursionLimits == {TightRecursionLimit, DefaultRecursionLimit}

CsvPath == "coverage_data.csv"
RecordPolicies == {"PN-1", "PN-2"}
DuesCells == {"True", "False", " TRUE "}
CoverageWindows == {<<2, 3>>, <<3, 3>>}
CsvRows ==
    [policy_number : RecordPolicies, premium_dues_remaining : DuesCells,
     window : CoverageWindows]
\* The file is missing, or it is there but pd.read_csv cannot read it (an
\* empty file), or it holds up to MaxRows rows.
CsvFiles ==
    {[exists |-> FALSE, readable |-> FALSE, rows |-> <<>>],
     [exists |-> TRUE, readable |-> FALSE, rows |-> <<>>]}
        \cup { [exists |-> TRUE, readable |-> TRUE, rows |-> r] :
                  r \in SeqsUpTo(CsvRows, MaxRows) }

-----------------------------------------------------------------------------
(* core/validation.py *)

\* str(cell).strip().lower()
StripLower(cell) ==
    CASE cell = "True" -> "true"
      [] cell = " TRUE " -> "true"
      [] cell = "False" -> "false"
      [] OTHER -> cell

ReasonFileNotFound == <<"Coverage data file not found: ", CsvPath>>
ReasonNotFound(pn) == <<"Policy ", pn, " not found in records">>
DuesText == " has outstanding premium dues -- claim cannot be processed"
ReasonDues(pn) == <<"Policy ", pn, DuesText>>
OutsideText == " is outside the coverage period ("
ReasonOutside(d, s, e, pn) ==
    <<"Date of loss ", DateStr(d), OutsideText, DateStr(s), " to ", DateStr(e),
      ") for policy ", pn>>
ReasonValid == <<"valid">>

\* What the file held for a policy number: whether the file was there and the
\* first row of that policy (none: <<>>).
Lookup(csv, pn) ==
    LET rows == SelectSeq(csv.rows, LAMBDA r : r.policy_number = pn)
    IN  [exists |-> csv.exists,
         readable |-> csv.readable,
         row |-> IF csv.exists /\ rows # <<>> THEN Some(rows[1]) ELSE None]

\* A validation that looks at the coverage window before the dues.
validate_claim_WindowFirst(claim, csv) ==
    LET found == Lookup(csv, claim.policy_number) IN
    IF ~csv.exists
    THEN [raised |-> "", is_valid |-> FALSE, reason |-> ReasonFileNotFound]
    ELSE IF ~csv.readable
    THEN [raised |-> "EmptyDataError", is_valid |-> FALSE, reason |-> <<>>]
    ELSE IF found.row = None
    THEN [raised |-> "", is_valid |-> FALSE,
          reason |-> ReasonNotFound(claim.policy_number)]
    ELSE
      LET record == found.row[1] IN
      IF ~(record.window[1] <= claim.date_of_loss
           /\ claim.date_of_loss <= record.window[2])
      THEN [raised |-> "", is_valid |-> FALSE,
            reason |-> ReasonOutside(claim.date_of_loss, record.window[1],
                                     record.window[2], claim.policy_number)]
      ELSE IF StripLower(record.premium_dues_remaining) = "true"
      THEN [raised |-> "", is_valid |-> FALSE,
            reason |-> ReasonDues(claim.policy_number)]
      ELSE [raised |-> "", is_valid |-> TRUE, reason |-> ReasonValid]

\* A validation whose coverage window excludes its last day.
validate_claim_ExclusiveEnd(claim, csv) ==
    LET found == Lookup(csv, claim.policy_number) IN
    IF ~csv.exists
    THEN [raised |-> "", is_valid |-> FALSE, reason |-> ReasonFileNotFound]
    ELSE IF ~csv.readable
    THEN [raised |-> "EmptyDataError", is_valid |-> FALSE, reason |-> <<>>]
    ELSE IF found.row = None
    THEN [raised |-> "", is_valid |-> FALSE,
          reason |-> ReasonNotFound(claim.policy_number)]
    ELSE
      LET record == found.row[1] IN
      IF StripLower(record.premium_dues_remaining) = "true"
      THEN [raised |-> "", is_valid |-> FALSE,
            reason |-> ReasonDues(claim.policy_number)]
      ELSE IF ~(record.window[1] <= claim.date_of_loss
                /\ claim.date_of_loss < record.window[2])
      THEN [raised |-> "", is_valid |-> FALSE,
            reason |-> ReasonOutside(claim.date_of_loss, record.window[1],
                                     record.window[2], claim.policy_number)]
      ELSE [raised |-> "", is_valid |-> TRUE, reason |-> ReasonValid]

\* (is_valid, reason), or the exception pd.read_csv raised.
validate_claim(claim, csv) ==
    IF ~csv.exists
    THEN [raised |-> "", is_valid |-> FALSE, reason |-> ReasonFileNotFound]
    ELSE IF ~csv.readable
    THEN [raised |-> "EmptyDataError", is_valid |-> FALSE, reason |-> <<>>]
    ELSE
      LET policy_row ==
              SelectSeq(csv.rows, LAMBDA r : r.policy_number = claim.policy_number)
      IN  IF policy_row = <<>>
          THEN [raised |-> "", is_valid |-> FALSE,
                reason |-> ReasonNotFound(claim.policy_number)]
          ELSE
            LET record == policy_row[1]
                dues_remaining == StripLower(record.premium_dues_remaining) = "true"
                coverage_start == record.window[1]
                coverage_end == record.window[2]
            IN  IF dues_remaining
                THEN [raised |-> "", is_valid |-> FALSE,
                      reason |-> ReasonDues(claim.policy_number)]
                ELSE IF ~(coverage_start <= claim.date_of_loss
                          /\ claim.date_of_loss <= coverage_end)
                THEN [raised |-> "", is_valid |-> FALSE,
                      reason |-> ReasonOutside(claim.date_of_loss, coverage_start,
                                               coverage_end, claim.policy_number)]
                ELSE [raised |-> "", is_valid |-> TRUE, reason |-> ReasonValid]

-----------------------------------------------------------------------------
(* core/retrieval.py *)

PolicyQuerySets ==
    {<<"q-collision">>, <<"q-collision", "q-deductible">>,
     <<"q-deductible", "q-collision">>}

\* What the vector store holds: its directory may be missing, the collection
\* may be missing, the collection may be empty, or each query has ranked hits.
StoreHits ==
    [q \in {"q-collision", "q-deductible"} |->
        IF q = "q-collision" THEN <<"Section 4", "Section 7">>
                             ELSE <<"Section 7", "Section 9">>]
ChromaStores == {"no_persist_dir", "no_collection", "empty", "populated"}

\* A retrieval that keeps every snippet.
Dedup_None(docs, seen) == docs

RECURSIVE Dedup(_, _)
Dedup(docs, seen) ==
    IF docs = <<>> THEN <<>>
    ELSE IF Head(docs) \in seen THEN Dedup(Tail(docs), seen)
    ELSE <<Head(docs)>> \o Dedup(Tail(docs), seen \cup {Head(docs)})

\* A retrieval that raises on an empty collection.
retrieve_policy_text_RaiseOnEmpty(queries, store) ==
    IF store \in {"no_persist_dir", "no_collection"}
    THEN [raised |-> "FileNotFoundError", chunks |-> <<>>]
    ELSE IF store = "empty"
    THEN [raised |-> "ValueError", chunks |-> <<>>]
    ELSE [raised |-> "",
          chunks |-> Dedup(Flatten([i \in 1..Len(queries) |-> StoreHits[queries[i]]]),
                           {})]

\* [raised |-> the exception, chunks |-> the returned list]
retrieve_policy_text(queries, store) ==
    IF store \in {"no_persist_dir", "no_collection"}
    THEN [raised |-> "FileNotFoundError", chunks |-> <<>>]
    ELSE IF store = "empty"
    THEN [raised |-> "", chunks |-> <<>>]
    ELSE [raised |-> "",
          chunks |-> Dedup(Flatten([i \in 1..Len(queries) |-> StoreHits[queries[i]]]),
                           {})]

-----------------------------------------------------------------------------
(* pipelines/langchain_pipeline/tools.py: the price check *)

\* What DDGS().text returns: it raises, or it returns snippets; a snippet is
\* given by the dollar amounts its text mentions, in order.
SearchOutcomes ==
    { [raised |-> TRUE, snippets |-> <<>>],
      [raised |-> FALSE, snippets |-> <<>>],
      [raised |-> FALSE, snippets |-> << <<>> >>],
      [raised |-> FALSE, snippets |-> << <<10>> >>],
      [raised |-> FALSE, snippets |-> << <<1000, 1100>>, <<1200, 10>> >>],
      [raised |-> FALSE, snippets |-> << <<3000>> >>],
      [raised |-> FALSE, snippets |-> << <<49, 50>>, <<200000, 200001>> >>],
      [raised |-> FALSE, snippets |-> << <<49>>, <<200001>> >>] }

\* A filter that drops the two ends of the plausible range.
_extract_dollar_amounts_Exclusive(snippets) ==
    SelectSeq(Flatten(snippets), LAMBDA a : MinPlausible < a /\ a < MaxPlausible)

_extract_dollar_amounts(snippets) ==
    SelectSeq(Flatten(snippets), LAMBDA a : MinPlausible <= a /\ a <= MaxPlausible)

\* f"{x:,.2f}" of the quotient num/den, as pieces.
Money(num, den) ==
    LET cents == (num \div den) * 100 + (2 * 100 * (num % den) + den) \div (2 * den)
    IN  <<"$", ToString(cents \div 100), ".", ToString(cents % 100)>>

InfoSearchFailed == <<"Web search unavailable (", "exc", "). Price check skipped.">>
InfoNoResults == <<"No web search results found. Price check skipped.">>
InfoNoAmounts ==
    <<"Web search returned results but no clear dollar estimates.\nSnippets:\n",
      "snippets">>
VerdictInflated == "INFLATED -- claimed cost exceeds threshold."
VerdictOk == "Within acceptable range."

\* A price check that flags a claim that is exactly at the threshold.
web_search_repair_cost_AtLeast(claim, threshold_pct, search) ==
    IF search.raised
    THEN [market_estimate |-> None, is_inflated |-> FALSE, info |-> InfoSearchFailed]
    ELSE IF search.snippets = <<>>
    THEN [market_estimate |-> None, is_inflated |-> FALSE, info |-> InfoNoResults]
    ELSE
      LET amounts == _extract_dollar_amounts(search.snippets) IN
      IF amounts = <<>>
      THEN [market_estimate |-> None, is_inflated |-> FALSE, info |-> InfoNoAmounts]
      ELSE
        LET total == SumSeq(amounts)
            n == Len(amounts)
            \* claimed > (total / n) * (1 + threshold)
            is_inflated ==
                claim.estimated_repair_cost * n * 100 >= total * (100 + threshold_pct)
        IN  [market_estimate |-> Some([sum |-> total, n |-> n]),
             is_inflated |-> is_inflated,
             info |->
                <<"Market estimate: ">> \o Money(total, n)
                \o <<" (based on ", ToString(n), " data points). ", "Claimed: ">>
                \o Money(claim.estimated_repair_cost, 1)
                \o <<". Threshold (", ToString(threshold_pct), "% above market): ">>
                \o Money(total * (100 + threshold_pct), n * 100)
                \o <<". ", IF is_inflated THEN VerdictInflated ELSE VerdictOk>>]

\* A price check that takes a failed search for a market estimate of zero.
web_search_repair_cost_ZeroEstimate(claim, threshold_pct, search) ==
    IF search.raised
    THEN [market_estimate |-> Some([sum |-> 0, n |-> 1]),
          is_inflated |-> claim.estimated_repair_cost > 0,
          info |-> InfoSearchFailed]
    ELSE IF search.snippets = <<>>
    THEN [market_estimate |-> None, is_inflated |-> FALSE, info |-> InfoNoResults]
    ELSE
      LET amounts == _extract_dollar_amounts(search.snippets) IN
      IF amounts = <<>>
      THEN [market_estimate |-> None, is_inflated |-> FALSE, info |-> InfoNoAmounts]
      ELSE
        LET total == SumSeq(amounts)
            n == Len(amounts)
            \* claimed > (total / n) * (1 + threshold)
            is_inflated ==
                claim.estimated_repair_cost * n * 100 > total * (100 + threshold_pct)
        IN  [market_estimate |-> Some([sum |-> total, n |-> n]),
             is_inflated |-> is_inflated,
             info |->
                <<"Market estimate: ">> \o Money(total, n)
                \o <<" (based on ", ToString(n), " data points). ", "Claimed: ">>
                \o Money(claim.estimated_repair_cost, 1)
                \o <<". Threshold (", ToString(threshold_pct), "% above market): ">>
                \o Money(total * (100 + threshold_pct), n * 100)
                \o <<". ", IF is_inflated THEN VerdictInflated ELSE VerdictOk>>]

\* (market_estimate, is_inflated, summary); the estimate is the exact mean
\* sum/n, kept as the pair [sum, n].
web_search_repair_cost(claim, threshold_pct, search) ==
    IF search.raised
    THEN [market_estimate |-> None, is_inflated |-> FALSE, info |-> InfoSearchFailed]
    ELSE IF search.snippets = <<>>
    THEN [market_estimate |-> None, is_inflated |-> FALSE, info |-> InfoNoResults]
    ELSE
      LET amounts == _extract_dollar_amounts(search.snippets) IN
      IF amounts = <<>>
      THEN [market_estimate |-> None, is_inflated |-> FALSE, info |-> InfoNoAmounts]
      ELSE
        LET total == SumSeq(amounts)
            n == Len(amounts)
            \* claimed > (total / n) * (1 + threshold)
            is_inflated ==
                claim.estimated_repair_cost * n * 100 > total * (100 + threshold_pct)
        IN  [market_estimate |-> Some([sum |-> total, n |-> n]),
             is_inflated |-> is_inflated,
             info |->
                <<"Market estimate: ">> \o Money(total, n)
                \o <<" (based on ", ToString(n), " data points). ", "Claimed: ">>
                \o Money(claim.estimated_repair_cost, 1)
                \o <<". Threshold (", ToString(threshold_pct), "% above market): ">>
                \o Money(total * (100 + threshold_pct), n * 100)
                \o <<". ", IF is_inflated THEN VerdictInflated ELSE VerdictOk>>]

-----------------------------------------------------------------------------
(* schemas: PolicyRecommendation, ClaimDecision *)

\* What the reasoning capability can return for a recommendation
\* (deductible and settlement_amount are Optional, >= 0).
Recommendations ==
    [policy_section : {"Section 4"}, recommendation_summary : {<<"Approved under collision.">>, <<>>},
     deductible : {None, Some(0), Some(500)},
     settlement_amount : {None, Some(3000)}]

\* ClaimDecision(...): the constructor's field constraints (ge=0 on both amounts).
ClaimDecisionValid(d) == d.deductible >= 0 /\ d.recommended_payout >= 0

ClaimDecision(cn, cov, ded, pay, notes) ==
    [claim_number |-> cn, covered |-> cov, deductible |-> ded,
     recommended_payout |-> pay, notes |-> notes]

\* Python's x or 0.0 on an Optional[float].
OrZero(opt) == IF opt = None \/ opt = Some(0) THEN 0 ELSE opt[1]

-----------------------------------------------------------------------------
(* pipelines/langchain_pipeline/chains.py: the state graph *)

Nodes ==
    {"parse_claim", "validate_claim", "check_policy", "price_check",
     "generate_recommendation", "finalize_decision", "finalize_invalid",
     "finalize_inflated"}
FinalizeNodes == {"finalize_decision", "finalize_invalid", "finalize_inflated"}

BoolStr(b) == IF b THEN "True" ELSE "False"

RECURSIVE JoinWith(_, _)
\* sep.join(parts) for parts that are sequences of pieces
JoinWith(parts, sep) ==
    IF parts = <<>> THEN <<>>
    ELSE IF Len(parts) = 1 THEN parts[1]
    ELSE parts[1] \o <<sep>> \o JoinWith(Tail(parts), sep)

\* str(list_of_str)
ListStr(xs) == <<"[">> \o JoinWith([i \in 1..Len(xs) |-> <<xs[i]>>], ", ") \o <<"]">>

\* _log_node plus the elapsed stamp: one trace entry of a node.
TraceEntry(name, extra) == [node |-> name, elapsed |-> tick, extra |-> extra]
Note(k, v) == [k |-> k, v |-> v]

\* The state graph.invoke starts from: {"claim_data": claim.model_dump(mode="json")}
InitialState(claim) ==
    [keys |-> {"claim_data"},
     claim_data |-> model_dump(claim),
     claim |-> None,
     is_valid |-> FALSE,
     validation_reason |-> <<>>,
     policy_queries |-> <<>>,
     policy_text |-> <<>>,
     market_cost_estimate |-> None,
     is_inflated |-> FALSE,
     market_cost_info |-> <<>>,
     recommendation |-> None,
     decision |-> None,
     trace |-> <<>>]

\* state.get(key, default)
Get(st, key, default) == IF key \in st.keys THEN st[key] ELSE default

\* A router that sends every claim on to the policy lookup.
route_after_validate_Always(st) == "check_policy"

route_after_validate(st) ==
    IF Get(st, "is_valid", FALSE) THEN "check_policy" ELSE "finalize_invalid"

\* A router that treats a missing market estimate like an inflated one.
route_after_price_check_NoEstimate(st) ==
    IF Get(st, "is_inflated", FALSE) \/ Get(st, "market_cost_estimate", None) = None
    THEN "finalize_inflated"
    ELSE "generate_recommendation"

route_after_price_check(st) ==
    IF Get(st, "is_inflated", FALSE) THEN "finalize_inflated"
    ELSE "generate_recommendation"

\* A graph whose recommendation node is wired straight to END.
build_claim_graph_NoFinalize(node, st) ==
    CASE node = "parse_claim" -> "validate_claim"
      [] node = "validate_claim" -> route_after_validate(st)
      [] node = "check_policy" -> "price_check"
      [] node = "price_check" -> route_after_price_check(st)
      [] node = "generate_recommendation" -> "END"
      [] OTHER -> "END"

\* A graph that lets a run through the validation a second time before the lookup.
build_claim_graph_Revalidate(node, st) ==
    CASE node = "parse_claim" -> "validate_claim"
      [] node = "validate_claim" ->
            IF Len(st.trace) < 3 /\ route_after_validate(st) = "check_policy"
            THEN "validate_claim" ELSE route_after_validate(st)
      [] node = "check_policy" -> "price_check"
      [] node = "price_check" -> route_after_price_check(st)
      [] node = "generate_recommendation" -> "finalize_decision"
      [] OTHER -> "END"

\* A graph with an edge back from finalize_decision to the recommendation.
build_claim_graph_Reconsider(node, st) ==
    CASE node = "parse_claim" -> "validate_claim"
      [] node = "validate_claim" -> route_after_validate(st)
      [] node = "check_policy" -> "price_check"
      [] node = "price_check" -> route_after_price_check(st)
      [] node = "generate_recommendation" -> "finalize_decision"
      [] node = "finalize_decision" -> "generate_recommendation"
      [] OTHER -> "END"

\* The edges of build_claim_graph: the node that follows node in state st.
build_claim_graph(node, st) ==
    CASE node = "parse_claim" -> "validate_claim"
      [] node = "validate_claim" -> route_after_validate(st)
      [] node = "check_policy" -> "price_check"
      [] node = "price_check" -> route_after_price_check(st)
      [] node = "generate_recommendation" -> "finalize_decision"
      [] node = "finalize_decision" -> "END"
      [] node = "finalize_invalid" -> "END"
      [] node = "finalize_inflated" -> "END"

\* A node may run while graph.invoke has supersteps left.
CanStep(node) == pc = node /\ steps < recursion_limit

\* A node returned st2 (the state with its update merged in).
Advance(node, st2) ==
    /\ state' = st2
    /\ pc' = build_claim_graph(node, st2)
    /\ steps' = steps + 1
    /\ UNCHANGED <<claim_in, recursion_limit, tick, result, error, http, runs>>
    /\ UNCHANGED rp_vars
    /\ UNCHANGED outside_vars

\* A node raised: graph.invoke and process_claim propagate the exception.
Raise(exc) ==
    /\ pc' = "raised"
    /\ error' = exc
    /\ UNCHANGED <<claim_in, recursion_limit, tick, steps, state, result, http, runs>>
    /\ UNCHANGED rp_vars
    /\ UNCHANGED outside_vars

\* Every node but validate_claim leaves the coverage CSV alone, every node
\* but price_check the web search.
NoLookup == UNCHANGED lookup
NoSearch == UNCHANGED searched
\* Only check_policy opens the vector store, only generate_recommendation
\* hands the policy text to the reasoning capability.
NoCalls == UNCHANGED calls

\* A node that starts a new trace list instead of appending to the state's.
WithTrace_Fresh(st, entry) ==
    [st EXCEPT !.trace = <<entry>>, !.keys = @ \cup {"trace"}]

WithTrace(st, entry) ==
    [st EXCEPT !.trace = Append(Get(st, "trace", <<>>), entry),
               !.keys = @ \cup {"trace"}]

node_parse_claim ==
    /\ CanStep("parse_claim")
    /\ LET claim == parse_claim(state.claim_data)
           t == TraceEntry("parse_claim", <<>>)
       IN  Advance("parse_claim",
                   [WithTrace(state, t) EXCEPT !.claim = Some(claim),
                                               !.keys = @ \cup {"claim"}])
    /\ NoLookup /\ NoSearch /\ NoCalls

node_validate_claim ==
    /\ CanStep("validate_claim")
    /\ \E csv \in CsvFiles :
         LET v == validate_claim(state.claim[1], csv)
             t == TraceEntry("validate_claim",
                             <<Note("is_valid", <<BoolStr(v.is_valid)>>),
                               Note("reason", v.reason)>>)
         IN  /\ IF v.raised # ""
                THEN Raise(v.raised)
                ELSE Advance("validate_claim",
                             [WithTrace(state, t) EXCEPT
                                 !.is_valid = v.is_valid,
                                 !.validation_reason = v.reason,
                                 !.keys = @ \cup {"is_valid", "validation_reason"}])
             /\ lookup' = Some(Lookup(csv, state.claim[1].policy_number))
    /\ NoSearch /\ NoCalls

node_check_policy ==
    /\ CanStep("check_policy")
    /\ \E llm_ok \in BOOLEAN, queries \in PolicyQuerySets, store \in ChromaStores :
         /\ IF ~llm_ok
            THEN Raise("LLMError")
            ELSE
              LET r == retrieve_policy_text(queries, store)
                  t == TraceEntry("check_policy",
                                  <<Note("queries", ListStr(queries)),
                                    Note("chunks_retrieved", <<ToString(Len(r.chunks))>>)>>)
              IN  IF r.raised # ""
                  THEN Raise(r.raised)
                  ELSE Advance("check_policy",
                               [WithTrace(state, t) EXCEPT
                                   !.policy_queries = queries,
                                   !.policy_text = r.chunks,
                                   !.keys = @ \cup {"policy_queries", "policy_text"}])
         /\ calls' = IF llm_ok THEN [calls EXCEPT !.store = Some(store)] ELSE calls
    /\ NoLookup /\ NoSearch

EstimateStr(est) == IF est = None THEN <<"None">> ELSE Money(est[1].sum, est[1].n)

node_price_check ==
    /\ CanStep("price_check")
    /\ \E search \in SearchOutcomes :
         LET r == web_search_repair_cost(state.claim[1], ThresholdPct, search)
             t == TraceEntry("price_check",
                             <<Note("market_estimate", EstimateStr(r.market_estimate)),
                               Note("is_inflated", <<BoolStr(r.is_inflated)>>)>>)
         IN  /\ Advance("price_check",
                        [WithTrace(state, t) EXCEPT
                            !.market_cost_estimate = r.market_estimate,
                            !.is_inflated = r.is_inflated,
                            !.market_cost_info = r.info,
                            !.keys = @ \cup {"market_cost_estimate", "is_inflated",
                                             "market_cost_info"}])
             /\ searched' = Some(search)
    /\ NoLookup /\ NoCalls

NoPolicyText == "No policy text available."

\* The policy_text argument handed to the reasoning capability.
PolicyTextArg(st) ==
    LET combined == JoinWith([i \in 1..Len(Get(st, "policy_text", <<>>)) |->
                                 <<st.policy_text[i]>>], "\n\n---\n\n")
    IN  IF combined = <<>> THEN <<NoPolicyText>> ELSE combined

node_generate_recommendation ==
    /\ CanStep("generate_recommendation")
    /\ \E llm_ok \in BOOLEAN, rec \in Recommendations :
         /\ IF ~llm_ok
            THEN Raise("LLMError")
            ELSE
              LET t == TraceEntry("generate_recommendation",
                                  <<Note("recommendation", rec.recommendation_summary)>>)
              IN  Advance("generate_recommendation",
                          [WithTrace(state, t) EXCEPT
                              !.recommendation = Some(rec),
                              !.keys = @ \cup {"recommendation"}])
         /\ calls' = [calls EXCEPT !.policy_text = Some(PolicyTextArg(state))]
    /\ NoLookup /\ NoSearch

\* A finalizer that pays the claimed cost when the recommendation names no amount.
FinalizeDecision_ClaimedCost(st) ==
    LET claim == st.claim[1]
        rec == st.recommendation[1]
    IN  ClaimDecision(claim.claim_number, TRUE, OrZero(rec.deductible),
                      IF rec.settlement_amount = None THEN claim.estimated_repair_cost
                      ELSE rec.settlement_amount[1],
                      rec.recommendation_summary)

FinalizeDecision(st) ==
    LET claim == st.claim[1]
        rec == st.recommendation[1]
    IN  ClaimDecision(claim.claim_number, TRUE, OrZero(rec.deductible),
                      OrZero(rec.settlement_amount), rec.recommendation_summary)

RejectedPrefix == "Claim rejected -- "
\* A finalizer that drops the validation reason.
FinalizeInvalid_NoReason(st) ==
    ClaimDecision(st.claim[1].claim_number, FALSE, 0, 0, <<RejectedPrefix>>)

FinalizeInvalid(st) ==
    ClaimDecision(st.claim[1].claim_number, FALSE, 0, 0,
                  <<RejectedPrefix>> \o st.validation_reason)

InflatedText == "Claim rejected -- estimated repair cost appears inflated. "
\* A finalizer that drops the price-check summary.
FinalizeInflated_NoInfo(st) ==
    ClaimDecision(st.claim[1].claim_number, FALSE, 0, 0, <<InflatedText>>)

FinalizeInflated(st) ==
    ClaimDecision(st.claim[1].claim_number, FALSE, 0, 0,
                  <<InflatedText>> \o Get(st, "market_cost_info", <<>>))

\* A finalizer that clears the claim from the state once the Decision is built.
Finalize_DropsClaim(node, decision) ==
    Advance(node,
            [WithTrace(state, TraceEntry(node, <<>>)) EXCEPT
                !.decision = Some(decision),
                !.claim = None,
                !.keys = @ \cup {"decision"}])

Finalize(node, decision) ==
    Advance(node,
            [WithTrace(state, TraceEntry(node, <<>>)) EXCEPT
                !.decision = Some(decision),
                !.keys = @ \cup {"decision"}])

node_finalize_decision ==
    /\ CanStep("finalize_decision")
    /\ Finalize("finalize_decision", FinalizeDecision(state))
    /\ NoLookup /\ NoSearch /\ NoCalls

node_finalize_invalid ==
    /\ CanStep("finalize_invalid")
    /\ Finalize("finalize_invalid", FinalizeInvalid(state))
    /\ NoLookup /\ NoSearch /\ NoCalls

node_finalize_inflated ==
    /\ CanStep("finalize_inflated")
    /\ Finalize("finalize_inflated", FinalizeInflated(state))
    /\ NoLookup /\ NoSearch /\ NoCalls

\* A graph that stops at the limit and hands back a rejection.
graph_recursion_error_Truncate ==
    /\ pc \in Nodes
    /\ steps >= recursion_limit
    /\ state' = [state EXCEPT
                    !.decision = Some(ClaimDecision(claim_in.claim_number, FALSE, 0, 0,
                                                    <<"Step limit reached.">>)),
                    !.keys = @ \cup {"decision"}]
    /\ pc' = "END"
    /\ UNCHANGED <<claim_in, recursion_limit, tick, steps, result, error, http, runs>>
    /\ UNCHANGED rp_vars
    /\ UNCHANGED outside_vars
    /\ NoLookup /\ NoSearch /\ NoCalls

\* graph.invoke ran out of supersteps before reaching END.
graph_recursion_error ==
    /\ pc \in Nodes
    /\ steps >= recursion_limit
    /\ Raise("GraphRecursionError")
    /\ NoLookup /\ NoSearch /\ NoCalls

-----------------------------------------------------------------------------
(* pipelines/langchain_pipeline/pipeline.py *)

TraceSeparator == "--- Processing Trace ---\n"

FormatEntry(entry) ==
    LET extra_parts == [i \in 1..Len(entry.extra) |->
                           <<entry.extra[i].k, "=">> \o entry.extra[i].v]
        extra == JoinWith(extra_parts, " | ")
    IN  <<"  [", entry.node, "] ", ToString(entry.elapsed), "s">>
        \o (IF extra # <<>> THEN <<" -- ">> \o extra ELSE <<>>)

_format_trace(trace) == JoinWith([i \in 1..Len(trace) |-> FormatEntry(trace[i])], "\n")

\* An attachment that overwrites the notes with the trace.
AttachTrace_Overwrite(decision, trace) ==
    IF trace = <<>> THEN decision
    ELSE [decision EXCEPT !.notes = <<TraceSeparator>> \o _format_trace(trace)]

\* The notes after process_claim attached the trace.
AttachTrace(decision, trace) ==
    IF trace = <<>> THEN decision
    ELSE IF decision.notes # <<>>
    THEN [decision EXCEPT !.notes = @ \o <<"\n\n", TraceSeparator>> \o _format_trace(trace)]
    ELSE [decision EXCEPT !.notes = <<TraceSeparator>> \o _format_trace(trace)]

\* graph.invoke returned: read result["decision"], attach the trace, return.
process_claim_return ==
    /\ pc = "END"
    /\ LET decision == AttachTrace(state.decision[1], Get(state, "trace", <<>>))
       IN  /\ result' = Some(decision)
           /\ state' = [state EXCEPT !.decision = Some(decision)]
    /\ pc' = "returned"
    /\ UNCHANGED <<claim_in, recursion_limit, tick, steps, error, lookup, searched, http,
                   calls, runs>>
    /\ UNCHANGED rp_vars
    /\ UNCHANGED outside_vars

(* api/routes/claims.py *)

\* What POST /claims/process answers once pipeline.process_claim has returned
\* a Decision or raised exc.
HttpOk(decision) == [status |-> 200, detail |-> <<>>, body |-> Some(decision)]
\* A handler that answers a failed run with a rejection Decision.
HttpError_AsDecision(exc) ==
    [status |-> 200, detail |-> <<>>,
     body |-> Some(ClaimDecision(claim_in.claim_number, FALSE, 0, 0,
                                 <<"Pipeline error: ", exc>>))]

HttpError(exc) ==
    IF exc = "ValidationError"
    THEN [status |-> 422, detail |-> <<exc>>, body |-> None]
    ELSE [status |-> 500, detail |-> <<"Pipeline error: ", exc>>, body |-> None]

\* The route handler after its call of pipeline.process_claim.
route_process_claim ==
    /\ http = None
    /\ pc \in {"returned", "raised"}
    /\ http' = Some(IF pc = "returned" THEN HttpOk(result[1]) ELSE HttpError(error))
    /\ UNCHANGED <<claim_in, recursion_limit, tick, pc, steps, state, result, error,
                   lookup, searched, calls, runs>>
    /\ UNCHANGED rp_vars
    /\ UNCHANGED outside_vars

-----------------------------------------------------------------------------
(* The deterministic engine as a state machine *)

Durations == {0, 1}

\* Before any capability call of the run.
NoCallsYet == [store |-> None, policy_text |-> None]

\* No call of a price tool or of the API client is under way.
OutsideIdle == tool = None /\ client = None

RecoveryIdle ==
    /\ raw_text = <<>>
    /\ rp_pc = "idle"
    /\ rp_tiers = <<>>
    /\ rp_json = <<>>
    /\ rp_result = None
    /\ rp_error = ""

Init ==
    /\ claim_in \in ClaimInfo
    /\ recursion_limit \in RecursionLimits
    /\ tick \in Durations
    /\ pc = "parse_claim"
    /\ steps = 0
    /\ state = InitialState(claim_in)
    /\ result = None
    /\ error = ""
    /\ lookup = None
    /\ searched = None
    /\ calls = NoCallsYet
    /\ runs = <<>>
    /\ http = None
    /\ RecoveryIdle
    /\ OutsideIdle

Next ==
    \/ node_parse_claim
    \/ node_validate_claim
    \/ node_check_policy
    \/ node_price_check
    \/ node_generate_recommendation
    \/ node_finalize_decision
    \/ node_finalize_invalid
    \/ node_finalize_inflated
    \/ graph_recursion_error
    \/ process_claim_return
    \/ route_process_claim

Spec == Init /\ [][Next]_vars

\* graph.invoke and process_claim run on one thread, one statement after the
\* other: a step that can be taken is taken.
LInit == Init /\ claim_in.claim_number = "CLM-1" /\ tick = 0
SpecLive == LInit /\ [][Next]_vars /\ WF_vars(Next)

-----------------------------------------------------------------------------
(* pipelines/smolagents_pipeline/tools.py: the agent's price tool *)

ToolMinPlausible == 50
ToolMaxPlausible == 200000

\* json.dumps of the market estimate: null or a number.
JsonNull == [json |-> "null"]
JsonNumber(est) == [json |-> "number", sum |-> est.sum, n |-> est.n]
\* What a reader of the tool's JSON string gets back for the estimate.
json_loads_estimate(v) ==
    IF v.json = "null" THEN None ELSE Some([sum |-> v.sum, n |-> v.n])

\* A tool that drops the two ends of the plausible range.
estimate_repair_cost_Exclusive(claim_json, threshold_pct, search) ==
    LET claim == parse_claim(claim_json) IN
    IF search.raised
    THEN [market_estimate |-> JsonNull, is_inflated |-> FALSE,
          summary |-> <<"Web search unavailable (", "exc", "). Price check skipped.">>]
    ELSE IF search.snippets = <<>>
    THEN [market_estimate |-> JsonNull, is_inflated |-> FALSE,
          summary |-> <<"No web search results found. Price check skipped.">>]
    ELSE
      LET amounts == SelectSeq(Flatten(search.snippets),
                               LAMBDA val : ToolMinPlausible < val /\ val < ToolMaxPlausible)
      IN
      IF amounts = <<>>
      THEN [market_estimate |-> JsonNull, is_inflated |-> FALSE,
            summary |->
               <<"Web search returned results but no clear dollar estimates.\nSnippets:\n",
                 "snippets">>]
      ELSE
        LET total == SumSeq(amounts)
            n == Len(amounts)
            is_inflated ==
                claim.estimated_repair_cost * n * 100 > total * (100 + threshold_pct)
        IN  [market_estimate |-> JsonNumber([sum |-> total, n |-> n]),
             is_inflated |-> is_inflated,
             summary |->
                <<"Market estimate: ">> \o Money(total, n)
                \o <<" (based on ", ToString(n), " data points). ", "Claimed: ">>
                \o Money(claim.estimated_repair_cost, 1)
                \o <<". Threshold (", ToString(threshold_pct), "% above market): ">>
                \o Money(total * (100 + threshold_pct), n * 100)
                \o <<". ", IF is_inflated THEN "INFLATED -- claimed cost exceeds threshold."
                           ELSE "Within acceptable range.">>]

\* estimate_repair_cost(claim_json, inflation_threshold): the JSON object the
\* tool returns, for the outcome search of its DuckDuckGo query.
estimate_repair_cost(claim_json, threshold_pct, search) ==
    LET claim == parse_claim(claim_json) IN
    IF search.raised
    THEN [market_estimate |-> JsonNull, is_inflated |-> FALSE,
          summary |-> <<"Web search unavailable (", "exc", "). Price check skipped.">>]
    ELSE IF search.snippets = <<>>
    THEN [market_estimate |-> JsonNull, is_inflated |-> FALSE,
          summary |-> <<"No web search results found. Price check skipped.">>]
    ELSE
      LET amounts == SelectSeq(Flatten(search.snippets),
                               LAMBDA val : ToolMinPlausible <= val /\ val <= ToolMaxPlausible)
      IN
      IF amounts = <<>>
      THEN [market_estimate |-> JsonNull, is_inflated |-> FALSE,
            summary |->
               <<"Web search returned results but no clear dollar estimates.\nSnippets:\n",
                 "snippets">>]
      ELSE
        LET total == SumSeq(amounts)
            n == Len(amounts)
            \* claimed > (total / n) * (1 + threshold)
            is_inflated ==
                claim.estimated_repair_cost * n * 100 > total * (100 + threshold_pct)
        IN  [market_estimate |-> JsonNumber([sum |-> total, n |-> n]),
             is_inflated |-> is_inflated,
             summary |->
                <<"Market estimate: ">> \o Money(total, n)
                \o <<" (based on ", ToString(n), " data points). ", "Claimed: ">>
                \o Money(claim.estimated_repair_cost, 1)
                \o <<". Threshold (", ToString(threshold_pct), "% above market): ">>
                \o Money(total * (100 + threshold_pct), n * 100)
                \o <<". ", IF is_inflated THEN "INFLATED -- claimed cost exceeds threshold."
                           ELSE "Within acceptable range.">>]

\* cfg.pipeline.price_check.inflation_threshold, in percent.
Thresholds == {0, ThresholdPct}

\* One claim, one threshold and one outcome of the web search, handed to the
\* price tool of each strategy.
ToolCalls ==
    [claim : ClaimInfo, threshold_pct : Thresholds, search : SearchOutcomes,
     estimate : {None}, web : {None}]

\* The agent calls its tool with the claim JSON of the task prompt.
call_estimate_repair_cost ==
    /\ tool # None
    /\ tool[1].estimate = None
    /\ tool' = Some([tool[1] EXCEPT !.estimate =
                        Some(estimate_repair_cost(model_dump(tool[1].claim),
                                                  tool[1].threshold_pct, tool[1].search))])
    /\ UNCHANGED <<engine_vars, rp_vars, client>>

\* node_price_check calls the engine's tool with the claim of the state.
call_web_search_repair_cost ==
    /\ tool # None
    /\ tool[1].web = None
    /\ tool' = Some([tool[1] EXCEPT !.web =
                        Some(web_search_repair_cost(tool[1].claim, tool[1].threshold_pct,
                                                    tool[1].search))])
    /\ UNCHANGED <<engine_vars, rp_vars, client>>

TInit ==
    /\ claim_in = None
    /\ recursion_limit = DefaultRecursionLimit
    /\ tick = 0
    /\ pc = "idle"
    /\ steps = 0
    /\ state = None
    /\ result = None
    /\ error = ""
    /\ lookup = None
    /\ searched = None
    /\ calls = NoCallsYet
    /\ runs = <<>>
    /\ http = None
    /\ RecoveryIdle
    /\ tool \in {Some(t) : t \in ToolCalls}
    /\ client = None

TNext ==
    \/ call_estimate_repair_cost
    \/ call_web_search_repair_cost

SpecPriceTool == TInit /\ [][TNext]_vars

-----------------------------------------------------------------------------
(* frontend/api_client.py: ClaimAPIClient *)

DefaultMaxRetries == 2
MaxRetries == 3

\* The public helpers and the request each of them makes.
ClientCalls == {"health_check", "list_pipelines", "process_claim"}
MethodOf(call) == IF call = "process_claim" THEN "POST" ELSE "GET"
PathOf(call) ==
    CASE call = "health_check" -> "/api/v1/health"
      [] call = "list_pipelines" -> "/api/v1/pipelines"
      [] call = "process_claim" -> "/api/v1/claims/process"

\* What one requests.request(...) followed by raise_for_status() can come to:
\* a response with its status code, or an exception of requests.  served says
\* whether the backend handled the request to its end (for a read timeout it
\* may have, the answer coming too late).
Response(status) ==
    [exc |-> IF status >= 400 THEN "HTTPError" ELSE "", status |-> status,
     served |-> TRUE]
Failure(exc, served) == [exc |-> exc, status |-> 0, served |-> served]
AttemptOutcomes ==
    {Response(s) : s \in {200, 404, 422, 500, 503}}
    \cup {Failure("ConnectionError", FALSE), Failure("ConnectTimeout", FALSE)}
    \cup {Failure("ReadTimeout", b) : b \in BOOLEAN}

\* The except clause that catches the outcome ("" for none).  ConnectTimeout
\* derives from both ConnectionError and Timeout; the first clause gets it.
ExceptClause(outcome) ==
    CASE outcome.exc \in {"ConnectionError", "ConnectTimeout"} -> "ConnectionError"
      [] outcome.exc = "HTTPError" -> "HTTPError"
      [] outcome.exc = "ReadTimeout" -> "Timeout"
      [] OTHER -> ""

\* APIError(message, status_code=...)
APIError(status_code) == [exc |-> "APIError", status_code |-> status_code]

NewRequest(call, max_retries) ==
    [call |-> call, method |-> MethodOf(call), path |-> PathOf(call),
     max_retries |-> max_retries, attempt |-> 1, sent |-> <<>>, last_exc |-> None,
     pc |-> "loop", returned |-> None, raised |-> None]

\* A loop body that also goes round again after a client error.
LoopBody_RetryClientErrors(c, outcome) ==
    LET c1 == [c EXCEPT !.sent = Append(@, outcome)] IN
    IF ExceptClause(outcome) = ""
    THEN [c1 EXCEPT !.pc = "returned", !.returned = Some(outcome.status)]
    ELSE [c1 EXCEPT !.last_exc = Some(outcome), !.attempt = @ + 1]

\* One pass through the body of the for loop of _request.
LoopBody(c, outcome) ==
    LET c1 == [c EXCEPT !.sent = Append(@, outcome)] IN
    IF ExceptClause(outcome) = ""
    THEN [c1 EXCEPT !.pc = "returned", !.returned = Some(outcome.status)]
    ELSE IF ExceptClause(outcome) = "HTTPError" /\ outcome.status < 500
    THEN [c1 EXCEPT !.pc = "raised", !.raised = Some(APIError(Some(outcome.status)))]
    ELSE [c1 EXCEPT !.last_exc = Some(outcome), !.attempt = @ + 1]

\* for attempt in range(1, self.max_retries + 1): one attempt.
request_attempt ==
    /\ client # None
    /\ client[1].pc = "loop"
    /\ client[1].attempt <= client[1].max_retries
    /\ \E outcome \in AttemptOutcomes : client' = Some(LoopBody(client[1], outcome))
    /\ UNCHANGED <<engine_vars, rp_vars, tool>>

\* The loop is over: raise APIError(f"... failed after {max_retries} attempts").
request_exhausted ==
    /\ client # None
    /\ client[1].pc = "loop"
    /\ client[1].attempt > client[1].max_retries
    /\ client' = Some([client[1] EXCEPT !.pc = "raised", !.raised = Some(APIError(None))])
    /\ UNCHANGED <<engine_vars, rp_vars, tool>>

ClientInit ==
    /\ claim_in = None
    /\ recursion_limit = DefaultRecursionLimit
    /\ tick = 0
    /\ pc = "idle"
    /\ steps = 0
    /\ state = None
    /\ result = None
    /\ error = ""
    /\ lookup = None
    /\ searched = None
    /\ calls = NoCallsYet
    /\ runs = <<>>
    /\ http = None
    /\ RecoveryIdle
    /\ tool = None
    /\ client \in {Some(NewRequest(call, n)) : call \in ClientCalls, n \in 0..MaxRetries}

ClientNext ==
    \/ request_attempt
    \/ request_exhausted

SpecClient == ClientInit /\ [][ClientNext]_vars

-----------------------------------------------------------------------------
(* pipelines/smolagents_pipeline/pipeline.py: the output-recovery pipeline *)

(* The agent's final answer is a sequence of chunks of text.  A chunk is a  *)
(* code fence, a brace, a run of prose, or one or two "key": literal pairs  *)
(* (where two pair chunks are adjacent the text has a comma between them).  *)
\* Three backquotes: the fence of a markdown code block.
Fence == "<fence>"
Open == "{"
Close == "}"
Prose == "I don't know what to do"
ClaimCovered == "\"claim_number\": \"CLM-1\", \"covered\": true"
ClaimNumber1 == "\"claim_number\": \"CLM-1\""
CoveredTrue == "\"covered\": true"
CoveredFalse == "\"covered\": false"
\* The same pair in capitals, with blanks on both sides of the colon.
CoveredTrueLoose == "\"COVERED\" :  True"
Deductible500 == "\"deductible\": 500"
DeductibleNeg == "\"deductible\": -5"
DeductibleBad == "\"deductible\": 1.2.3"
Payout3000 == "\"recommended_payout\": 3000"
PayoutBad == "\"recommended_payout\": 1.2.3"
NotesOk == "\"notes\": \"ok\""
\* A long run of tool log lines the agent copied into its answer.
Padding == "<281 characters of tool log>"

\* A literal: kind "true" | "false" | "str" | "num" (digits, a valid number)
\* | "neg" (a minus sign and digits) | "badnum" (digits and dots, no number)
\* | "True" (the word in another case than JSON's).
Lit(key, kind, str, num) == [key |-> key, kind |-> kind, str |-> str, num |-> num]

\* The "key": literal pairs a chunk holds, in text order.
Fields(chunk) ==
    CASE chunk = ClaimCovered ->
            <<Lit("claim_number", "str", "CLM-1", 0), Lit("covered", "true", "", 0)>>
      [] chunk = ClaimNumber1 -> <<Lit("claim_number", "str", "CLM-1", 0)>>
      [] chunk = CoveredTrue -> <<Lit("covered", "true", "", 0)>>
      [] chunk = CoveredFalse -> <<Lit("covered", "false", "", 0)>>
      [] chunk = CoveredTrueLoose -> <<Lit("COVERED", "True", "", 0)>>
      [] chunk = Deductible500 -> <<Lit("deductible", "num", "", 500)>>
      [] chunk = DeductibleNeg -> <<Lit("deductible", "neg", "", -5)>>
      [] chunk = DeductibleBad -> <<Lit("deductible", "badnum", "", 0)>>
      [] chunk = Payout3000 -> <<Lit("recommended_payout", "num", "", 3000)>>
      [] chunk = PayoutBad -> <<Lit("recommended_payout", "badnum", "", 0)>>
      [] chunk = NotesOk -> <<Lit("notes", "str", "ok", 0)>>
      [] OTHER -> <<>>

IsPairChunk(chunk) == Fields(chunk) # <<>>

AllFields(text) == Flatten([i \in 1..Len(text) |-> Fields(text[i])])

\* Characters a chunk contributes to the text (for text[:n]).
ChunkChars(chunk) ==
    CASE chunk = Fence -> 3
      [] chunk = Open -> 1
      [] chunk = Close -> 1
      [] chunk = Prose -> 23
      [] chunk = ClaimCovered -> 39
      [] chunk = ClaimNumber1 -> 23
      [] chunk = CoveredTrue -> 15
      [] chunk = CoveredFalse -> 16
      [] chunk = CoveredTrueLoose -> 17
      [] chunk = Deductible500 -> 17
      [] chunk = DeductibleNeg -> 16
      [] chunk = DeductibleBad -> 19
      [] chunk = Payout3000 -> 26
      [] chunk = PayoutBad -> 27
      [] chunk = NotesOk -> 13
      [] chunk = Padding -> 281

Slice(text, i, j) == [k \in 1..(j - i + 1) |-> text[i + k - 1]]

\* The fenced-block search of _extract_json (re.DOTALL): the places
\* <<i, j>> where a fence at i is followed by "{" and a "}" at j is followed
\* by a fence.
FenceMatches(text) ==
    { <<i, j>> \in (1..Len(text)) \X (1..Len(text)) :
        /\ j >= i + 2
        /\ j + 1 <= Len(text)
        /\ text[i] = Fence
        /\ text[i + 1] = Open
        /\ text[j] = Close
        /\ text[j + 1] = Fence }

\* re.search(r"\{[^{}]*\}", text, re.DOTALL): a "{" at i, a "}" at j and no
\* brace between them.
BareMatches(text) ==
    { <<i, j>> \in (1..Len(text)) \X (1..Len(text)) :
        /\ i < j
        /\ text[i] = Open
        /\ text[j] = Close
        /\ \A k \in (i + 1)..(j - 1) : text[k] \notin {Open, Close} }

\* The leftmost match, and for that start the shortest one.
FirstMatch(ms) ==
    CHOOSE m \in ms : \A o \in ms : m[1] < o[1] \/ (m[1] = o[1] /\ m[2] <= o[2])

_extract_json(text) ==
    IF FenceMatches(text) # {}
    THEN LET m == FirstMatch(FenceMatches(text)) IN Slice(text, m[1] + 1, m[2])
    ELSE IF BareMatches(text) # {}
    THEN LET m == FirstMatch(BareMatches(text)) IN Slice(text, m[1], m[2])
    ELSE text

\* json.loads(json_str) succeeds on an object whose members are pairs with
\* JSON literals; every other chunk sequence of this alphabet is no JSON
\* document (prose, a fence, a bare pair, a brace inside an object that has
\* no key before it, the literal 1.2.3).
JsonLoadsOk(js) ==
    /\ Len(js) >= 2
    /\ js[1] = Open
    /\ js[Len(js)] = Close
    /\ \A k \in 2..(Len(js) - 1) :
          /\ IsPairChunk(js[k])
          /\ \A f \in Range(Fields(js[k])) : f.kind \notin {"badnum", "True"}

\* The dict json.loads returns, as its members in text order (a later
\* member of the same key replaces an earlier one).
JsonMembers(js) == AllFields(Slice(js, 2, Len(js) - 1))

HasKey(members, key) == \E i \in 1..Len(members) : members[i].key = key
Member(members, key) ==
    members[CHOOSE i \in 1..Len(members) :
                /\ members[i].key = key
                /\ \A k \in (i + 1)..Len(members) : members[k].key # key]

\* A schema without the lower bounds of the two amounts.
SchemaOk_NoBounds(members) ==
    /\ HasKey(members, "claim_number") /\ Member(members, "claim_number").kind = "str"
    /\ HasKey(members, "covered") /\ Member(members, "covered").kind \in {"true", "false"}
    /\ \A key \in {"deductible", "recommended_payout"} :
          HasKey(members, key) => Member(members, key).kind \in {"num", "neg"}
    /\ HasKey(members, "notes") => Member(members, "notes").kind = "str"

\* ClaimDecision(**data) accepts the dict.
SchemaOk(members) ==
    /\ HasKey(members, "claim_number") /\ Member(members, "claim_number").kind = "str"
    /\ HasKey(members, "covered") /\ Member(members, "covered").kind \in {"true", "false"}
    /\ \A key \in {"deductible", "recommended_payout"} :
          HasKey(members, key) =>
              /\ Member(members, key).kind \in {"num", "neg"}
              /\ Member(members, key).num >= 0
    /\ HasKey(members, "notes") => Member(members, "notes").kind = "str"

DecisionOfMembers(members) ==
    ClaimDecision(
        Member(members, "claim_number").str,
        Member(members, "covered").kind = "true",
        IF HasKey(members, "deductible") THEN Member(members, "deductible").num ELSE 0,
        IF HasKey(members, "recommended_payout")
            THEN Member(members, "recommended_payout").num ELSE 0,
        IF HasKey(members, "notes") THEN <<Member(members, "notes").str>> ELSE None)

\* Tier 1: json.loads(_extract_json(text)), then ClaimDecision(**data).
\* raised is "" or the exception the try block raised.
Tier1(text) ==
    LET js == _extract_json(text) IN
    IF ~JsonLoadsOk(js)
    THEN [raised |-> "JSONDecodeError", decision |-> None]
    ELSE IF ~SchemaOk(JsonMembers(js))
    THEN [raised |-> "ValidationError", decision |-> None]
    ELSE [raised |-> "", decision |-> Some(DecisionOfMembers(JsonMembers(js)))]

FuzzyNote == "Extracted from agent output via fuzzy parsing."

\* re.search(r'"<key>"\s*:\s*([\d.]+)', text): the leftmost pair of that key
\* whose literal starts with a digit or a dot.
NumberMatches(text, key) ==
    LET fs == AllFields(text)
    IN  { i \in 1..Len(fs) : fs[i].key = key /\ fs[i].kind \in {"num", "badnum"} }

Min(S) == CHOOSE x \in S : \A y \in S : x <= y

\* An extraction that insists on the number being there.
FuzzyNumber_Required(text, key) ==
    IF NumberMatches(text, key) = {}
    THEN [raised |-> "KeyError", num |-> 0]
    ELSE LET f == AllFields(text)[Min(NumberMatches(text, key))]
         IN  IF f.kind = "badnum" THEN [raised |-> "ValueError", num |-> 0]
             ELSE [raised |-> "", num |-> f.num]

\* An extraction that passes over a malformed literal to the next number.
FuzzyNumber_SkipBad(text, key) ==
    LET fs == AllFields(text)
        good == { i \in 1..Len(fs) : fs[i].key = key /\ fs[i].kind = "num" }
    IN  IF good = {} THEN [raised |-> "", num |-> 0]
        ELSE [raised |-> "", num |-> fs[Min(good)].num]

\* float(match.group(1)) if match else 0.0
FuzzyNumber(text, key) ==
    IF NumberMatches(text, key) = {}
    THEN [raised |-> "", num |-> 0]
    ELSE LET f == AllFields(text)[Min(NumberMatches(text, key))]
         IN  IF f.kind = "badnum" THEN [raised |-> "ValueError", num |-> 0]
             ELSE [raised |-> "", num |-> f.num]

\* What re.IGNORECASE makes of the words of the alphabet.
Lower(s) ==
    CASE s = "COVERED" -> "covered"
      [] s = "True" -> "true"
      [] OTHER -> s

\* An extraction that goes by the first covered literal of the text.
FuzzyCovered_FirstLiteral(text) ==
    LET fs == AllFields(text)
        hits == { i \in 1..Len(fs) : /\ Lower(fs[i].key) = "covered"
                                      /\ Lower(fs[i].kind) \in {"true", "false"} }
    IN  IF hits = {} THEN FALSE ELSE Lower(fs[Min(hits)].kind) = "true"

\* The if / elif / else on the two case-insensitive searches.
FuzzyCovered(text) ==
    IF \E f \in Range(AllFields(text)) :
          Lower(f.key) = "covered" /\ Lower(f.kind) = "true"
    THEN TRUE
    ELSE IF \E f \in Range(AllFields(text)) :
          Lower(f.key) = "covered" /\ Lower(f.kind) = "false"
    THEN FALSE
    ELSE FALSE

FuzzyNotes(text) ==
    LET fs == AllFields(text)
        hits == { i \in 1..Len(fs) : fs[i].key = "notes" /\ fs[i].kind = "str" }
    IN  IF hits = {} THEN <<FuzzyNote>> ELSE <<fs[Min(hits)].str>>

\* _fuzzy_extract(text, claim): the dict, or the exception float() raised.
_fuzzy_extract(text, claim) ==
    LET ded == FuzzyNumber(text, "deductible")
        pay == FuzzyNumber(text, "recommended_payout")
    IN  IF ded.raised # "" THEN [raised |-> ded.raised, decision |-> None]
        ELSE IF pay.raised # "" THEN [raised |-> pay.raised, decision |-> None]
        ELSE [raised |-> "",
              decision |-> Some(ClaimDecision(claim.claim_number, FuzzyCovered(text),
                                              ded.num, pay.num, FuzzyNotes(text)))]

\* Tier 2: ClaimDecision(**_fuzzy_extract(text, claim)).
Tier2(text, claim) ==
    LET r == _fuzzy_extract(text, claim) IN
    IF r.raised # "" THEN r
    ELSE IF ~ClaimDecisionValid(r.decision[1])
    THEN [raised |-> "ValidationError", decision |-> None]
    ELSE r

RECURSIVE TotalChars(_)
TotalChars(text) == IF text = <<>> THEN 0 ELSE ChunkChars(Head(text)) + TotalChars(Tail(text))

\* text[:n]: the whole chunks that fit, then how many characters of the next.
RECURSIVE Excerpt(_, _)
Excerpt(text, n) ==
    IF text = <<>> \/ n <= 0 THEN <<>>
    ELSE IF ChunkChars(Head(text)) <= n
    THEN <<Head(text)>> \o Excerpt(Tail(text), n - ChunkChars(Head(text)))
    ELSE <<Head(text), "[:", ToString(n), "]">>

FallbackNote == "Agent output could not be parsed into a valid decision. Raw: "

\* A fallback that quotes the whole output.
Tier3_WholeText(text, claim) ==
    ClaimDecision(claim.claim_number, FALSE, 0, 0, <<FallbackNote>> \o text)

\* Tier 3: the fallback decision.
Tier3(text, claim) ==
    ClaimDecision(claim.claim_number, FALSE, 0, 0,
                  <<FallbackNote>> \o Excerpt(text, ExcerptLimit))

\* Handlers that catch json.JSONDecodeError only.
CaughtByExcept_JsonOnly(exc) == exc = "JSONDecodeError"

\* except Exception: what the two handlers of _parse_decision catch.
CaughtByExcept(exc) == TRUE

RpReturn(decision) ==
    /\ rp_result' = Some(decision)
    /\ rp_pc' = "returned"
    /\ UNCHANGED rp_error

RpRaise(exc) ==
    /\ rp_error' = exc
    /\ rp_pc' = "raised"
    /\ UNCHANGED rp_result

\* A first tier whose result is never returned: the retry always runs.
parse_tier1_NoEarlyReturn ==
    /\ rp_pc = "tier1"
    /\ rp_json' = _extract_json(raw_text)
    /\ rp_tiers' = Append(rp_tiers, "tier1")
    /\ rp_pc' = "tier2"
    /\ UNCHANGED <<rp_result, rp_error, raw_text>>
    /\ UNCHANGED engine_vars
    /\ UNCHANGED outside_vars

\* The first try block.
parse_tier1 ==
    /\ rp_pc = "tier1"
    /\ rp_json' = _extract_json(raw_text)
    /\ rp_tiers' = Append(rp_tiers, "tier1")
    /\ LET r == Tier1(raw_text) IN
       IF r.raised = "" THEN RpReturn(r.decision[1])
       ELSE IF CaughtByExcept(r.raised)
       THEN rp_pc' = "tier2" /\ UNCHANGED <<rp_result, rp_error>>
       ELSE RpRaise(r.raised)
    /\ UNCHANGED raw_text
    /\ UNCHANGED engine_vars
    /\ UNCHANGED outside_vars

\* The retry (_retry is True on every call process_claim makes).
parse_tier2 ==
    /\ rp_pc = "tier2"
    /\ rp_tiers' = Append(rp_tiers, "tier2")
    /\ LET r == Tier2(raw_text, claim_in) IN
       IF r.raised = "" THEN RpReturn(r.decision[1])
       ELSE IF CaughtByExcept(r.raised)
       THEN rp_pc' = "tier3" /\ UNCHANGED <<rp_result, rp_error>>
       ELSE RpRaise(r.raised)
    /\ UNCHANGED <<raw_text, rp_json>>
    /\ UNCHANGED engine_vars
    /\ UNCHANGED outside_vars

\* The fallback return.
parse_tier3 ==
    /\ rp_pc = "tier3"
    /\ rp_tiers' = Append(rp_tiers, "tier3")
    /\ LET d == Tier3(raw_text, claim_in) IN
       IF ClaimDecisionValid(d) THEN RpReturn(d) ELSE RpRaise("ValidationError")
    /\ UNCHANGED <<raw_text, rp_json>>
    /\ UNCHANGED engine_vars
    /\ UNCHANGED outside_vars

\* The chunks the agent's answers are drawn from.
Chunks == {Fence, Open, Close, Prose, ClaimCovered, DeductibleBad, NotesOk}

\* A fenced JSON object with a claim number and covered = true.
FencedExample == <<Fence, Open, ClaimCovered, Close, Fence>>

\* Answers with a number that is none, of 300 characters, of more than 300
\* with the cut between two chunks, and with the cut inside a chunk.
LongTexts ==
    {<<DeductibleBad, Padding>>, <<DeductibleBad, Padding, Prose>>,
     <<Padding, Prose, DeductibleBad>>}

\* The answers the agent can end a run with.
AgentTexts == SeqsUpTo(Chunks, MaxLen) \cup {FencedExample} \cup LongTexts

\* The claims the recovery pipeline is run for.
RecoveryClaims ==
    { c \in ClaimInfo : /\ c.policy_number = "PN-1"
                        /\ c.date_of_loss = 1
                        /\ c.estimated_repair_cost = 1500 }

RInit ==
    /\ claim_in \in RecoveryClaims
    /\ recursion_limit = DefaultRecursionLimit
    /\ tick = 0
    /\ pc = "idle"
    /\ steps = 0
    /\ state = InitialState(claim_in)
    /\ result = None
    /\ error = ""
    /\ lookup = None
    /\ searched = None
    /\ calls = NoCallsYet
    /\ runs = <<>>
    /\ http = None
    /\ OutsideIdle
    /\ raw_text \in AgentTexts
    /\ rp_pc = "tier1"
    /\ rp_tiers = <<>>
    /\ rp_json = <<>>
    /\ rp_result = None
    /\ rp_error = ""

RNext ==
    \/ parse_tier1
    \/ parse_tier2
    \/ parse_tier3

SpecRecovery == RInit /\ [][RNext]_vars

\* Answers without a JSON object: prose and "key": literal pairs in any order
\* and number, the text of tests/test_smolagents_pipeline.py
\* (test_fuzzy_extract_covered_true), and an object without its claim number.
FuzzyChunks ==
    {Prose, CoveredTrue, CoveredFalse, Deductible500, DeductibleNeg, DeductibleBad,
     Payout3000, NotesOk}
FuzzyExample == <<CoveredTrue, Deductible500, Payout3000, NotesOk>>
ObjectWithoutClaim == <<Open, CoveredTrue, Deductible500, Close>>
\* Complete objects: one with a negative deductible, one with a deductible
\* of 500 and no payout.
NegativeObject == <<Open, ClaimNumber1, CoveredTrue, DeductibleNeg, Close>>
PositiveObject == <<Open, ClaimNumber1, CoveredTrue, Deductible500, Close>>
FuzzyTexts ==
    SeqsUpTo(FuzzyChunks, MaxFuzzyLen)
    \cup {FuzzyExample, ObjectWithoutClaim, NegativeObject, PositiveObject}

FInit ==
    /\ claim_in \in RecoveryClaims
    /\ recursion_limit = DefaultRecursionLimit
    /\ tick = 0
    /\ pc = "idle"
    /\ steps = 0
    /\ state = InitialState(claim_in)
    /\ result = None
    /\ error = ""
    /\ lookup = None
    /\ searched = None
    /\ calls = NoCallsYet
    /\ runs = <<>>
    /\ http = None
    /\ OutsideIdle
    /\ raw_text \in FuzzyTexts
    /\ rp_pc = "tier1"
    /\ rp_tiers = <<>>
    /\ rp_json = <<>>
    /\ rp_result = None
    /\ rp_error = ""

SpecFuzzy == FInit /\ [][RNext]_vars

\* Answers whose amounts are well formed, malformed or absent, inside and
\* outside a JSON object.
MaxNumberLen == 3
NumberChunks ==
    {Prose, Open, Close, ClaimCovered, Deductible500, DeductibleBad, Payout3000,
     PayoutBad}
NumberTexts == SeqsUpTo(NumberChunks, MaxNumberLen)

NInit ==
    /\ claim_in \in RecoveryClaims
    /\ recursion_limit = DefaultRecursionLimit
    /\ tick = 0
    /\ pc = "idle"
    /\ steps = 0
    /\ state = InitialState(claim_in)
    /\ result = None
    /\ error = ""
    /\ lookup = None
    /\ searched = None
    /\ calls = NoCallsYet
    /\ runs = <<>>
    /\ http = None
    /\ OutsideIdle
    /\ raw_text \in NumberTexts
    /\ rp_pc = "tier1"
    /\ rp_tiers = <<>>
    /\ rp_json = <<>>
    /\ rp_result = None
    /\ rp_error = ""

SpecNumbers == NInit /\ [][RNext]_vars

\* Answers that say covered true, covered false, both or neither, inside and
\* outside a JSON object.
MaxCoveredLen == 3
CoveredChunks ==
    {Prose, Open, Close, ClaimNumber1, CoveredTrue, CoveredFalse, CoveredTrueLoose,
     DeductibleBad}
CoveredTexts == SeqsUpTo(CoveredChunks, MaxCoveredLen)

CovInit ==
    /\ claim_in \in RecoveryClaims
    /\ recursion_limit = DefaultRecursionLimit
    /\ tick = 0
    /\ pc = "idle"
    /\ steps = 0
    /\ state = InitialState(claim_in)
    /\ result = None
    /\ error = ""
    /\ lookup = None
    /\ searched = None
    /\ calls = NoCallsYet
    /\ runs = <<>>
    /\ http = None
    /\ OutsideIdle
    /\ raw_text \in CoveredTexts
    /\ rp_pc = "tier1"
    /\ rp_tiers = <<>>
    /\ rp_json = <<>>
    /\ rp_result = None
    /\ rp_error = ""

SpecCovered == CovInit /\ [][RNext]_vars

-----------------------------------------------------------------------------
(* One pipeline instance, several claims at a time *)

(* process_claim may be entered for a second claim while a first one is     *)
(* between two nodes.  Each call gives graph.invoke a state dict of its     *)
(* own; the calls share the compiled graph and the configuration.  The      *)
(* capability responses of a run are fixed when it starts (mocked).         *)
RunIds == {1, 2}

ConcurrentClaims ==
    { c \in ClaimInfo : /\ c.policy_number = "PN-1"
                        /\ c.date_of_loss = 2
                        /\ c.estimated_repair_cost \in {1500, 1600}
                        /\ c.claim_number = "CLM-1" <=> c.estimated_repair_cost = 1500 }

\* A coverage file whose policy PN-1 has no dues, and one where it has.
CsvOf(dues) ==
    [exists |-> TRUE, readable |-> TRUE,
     rows |-> <<[policy_number |-> "PN-1", premium_dues_remaining |-> dues,
                 window |-> <<2, 3>>]>>]

\* What the capabilities answer to one run: the coverage file, the queries
\* and the recommendation of the reasoning capability (or its failure), the
\* vector store, the web search.
MockedResponses ==
    [csv : {CsvOf("False"), CsvOf("True")},
     queries : {<<"q-collision", "q-deductible">>},
     store : {"populated"},
     search : {[raised |-> TRUE, snippets |-> <<>>],
               [raised |-> FALSE, snippets |-> << <<1000, 1100>>, <<1200, 10>> >>]},
     llm_ok : BOOLEAN,
     rec : {[policy_section |-> "Section 4",
             recommendation_summary |-> <<"Approved under collision.">>,
             deductible |-> Some(500), settlement_amount |-> Some(3000)]}]

\* A call of process_claim that has not run a node yet; n counts its steps.
InitialRun(claim, resp, duration) ==
    [claim |-> claim, resp |-> resp, tick |-> duration, n |-> 0,
     pc |-> "parse_claim", steps |-> 0, state |-> InitialState(claim),
     result |-> None, error |-> ""]

\* _log_node plus the elapsed stamp, in the run's own time.
RunEntry(run, name, extra) == [node |-> name, elapsed |-> run.tick, extra |-> extra]

Longest(traces) == CHOOSE t \in traces : \A u \in traces : Len(u) <= Len(t)

\* A trace list that belongs to the pipeline instance: every call appends to it.
CurrentTrace_Shared(rs, r) ==
    Longest({ Get(rs[q].state, "trace", <<>>) : q \in DOMAIN rs })

\* trace = state.get("trace", []): the list of the call's own state dict.
CurrentTrace(rs, r) == Get(rs[r].state, "trace", <<>>)

\* trace.append(t)
Traced(rs, r, name, extra) ==
    [rs[r].state EXCEPT !.trace = Append(CurrentTrace(rs, r), RunEntry(rs[r], name, extra)),
                        !.keys = @ \cup {"trace"}]

\* A finalizer whose deductible grows with the time the run took.
RunDecision_Timed(run) ==
    LET d == CASE run.pc = "finalize_invalid" -> FinalizeInvalid(run.state)
               [] run.pc = "finalize_inflated" -> FinalizeInflated(run.state)
               [] run.pc = "finalize_decision" -> FinalizeDecision(run.state)
    IN  [d EXCEPT !.deductible = @ + run.tick]

\* The Decision the finalize node the run stands at builds.
RunDecision(run) ==
    CASE run.pc = "finalize_invalid" -> FinalizeInvalid(run.state)
      [] run.pc = "finalize_inflated" -> FinalizeInflated(run.state)
      [] run.pc = "finalize_decision" -> FinalizeDecision(run.state)

Returned(st) == [raised |-> "", st |-> st]
Raised(exc) == [raised |-> exc, st |-> <<>>]

\* The node the run stands at, run on the run's state with the run's
\* capability responses: the state it returns, or the exception it raises.
NodeOutcome(rs, r) ==
    LET run == rs[r]
        st == run.state
        resp == run.resp
    IN  CASE run.pc = "parse_claim" ->
               Returned([Traced(rs, r, "parse_claim", <<>>) EXCEPT
                            !.claim = Some(parse_claim(st.claim_data)),
                            !.keys = @ \cup {"claim"}])
          [] run.pc = "validate_claim" ->
               LET v == validate_claim(st.claim[1], resp.csv) IN
               IF v.raised # "" THEN Raised(v.raised)
               ELSE Returned([Traced(rs, r, "validate_claim",
                                     <<Note("is_valid", <<BoolStr(v.is_valid)>>),
                                       Note("reason", v.reason)>>) EXCEPT
                                 !.is_valid = v.is_valid,
                                 !.validation_reason = v.reason,
                                 !.keys = @ \cup {"is_valid", "validation_reason"}])
          [] run.pc = "check_policy" ->
               LET q == retrieve_policy_text(resp.queries, resp.store) IN
               IF q.raised # "" THEN Raised(q.raised)
               ELSE Returned([Traced(rs, r, "check_policy",
                                     <<Note("queries", ListStr(resp.queries)),
                                       Note("chunks_retrieved",
                                            <<ToString(Len(q.chunks))>>)>>) EXCEPT
                                 !.policy_queries = resp.queries,
                                 !.policy_text = q.chunks,
                                 !.keys = @ \cup {"policy_queries", "policy_text"}])
          [] run.pc = "price_check" ->
               LET p == web_search_repair_cost(st.claim[1], ThresholdPct, resp.search) IN
               Returned([Traced(rs, r, "price_check",
                                <<Note("market_estimate", EstimateStr(p.market_estimate)),
                                  Note("is_inflated", <<BoolStr(p.is_inflated)>>)>>) EXCEPT
                            !.market_cost_estimate = p.market_estimate,
                            !.is_inflated = p.is_inflated,
                            !.market_cost_info = p.info,
                            !.keys = @ \cup {"market_cost_estimate", "is_inflated",
                                             "market_cost_info"}])
          [] run.pc = "generate_recommendation" ->
               IF ~resp.llm_ok THEN Raised("LLMError")
               ELSE Returned([Traced(rs, r, "generate_recommendation",
                                     <<Note("recommendation",
                                            resp.rec.recommendation_summary)>>) EXCEPT
                                 !.recommendation = Some(resp.rec),
                                 !.keys = @ \cup {"recommendation"}])
          [] run.pc \in FinalizeNodes ->
               Returned([Traced(rs, r, run.pc, <<>>) EXCEPT
                            !.decision = Some(RunDecision(run)),
                            !.keys = @ \cup {"decision"}])

\* One node of run r has run.
RunNode(rs, r) ==
    LET o == NodeOutcome(rs, r) IN
    IF o.raised # ""
    THEN [rs[r] EXCEPT !.pc = "raised", !.error = o.raised, !.n = @ + 1]
    ELSE [rs[r] EXCEPT !.state = o.st,
                       !.pc = build_claim_graph(rs[r].pc, o.st),
                       !.steps = @ + 1,
                       !.n = @ + 1]

\* graph.invoke of the run ran out of supersteps.
RunAbort(run) == [run EXCEPT !.pc = "raised", !.error = "GraphRecursionError", !.n = @ + 1]

\* graph.invoke of the run returned: attach the trace, return the Decision.
RunReturn(run) ==
    LET decision == AttachTrace(run.state.decision[1], Get(run.state, "trace", <<>>))
    IN  [run EXCEPT !.result = Some(decision),
                    !.state = [@ EXCEPT !.decision = Some(decision)],
                    !.pc = "returned",
                    !.n = @ + 1]

\* The next step of run r among the runs rs, under the step limit.
RunStep(rs, r, limit) ==
    IF rs[r].pc \in Nodes
    THEN IF rs[r].steps < limit THEN RunNode(rs, r) ELSE RunAbort(rs[r])
    ELSE IF rs[r].pc = "END" THEN RunReturn(rs[r])
    ELSE rs[r]

\* The variables of a single call, idle while the instance serves several.
single_vars ==
    <<claim_in, tick, pc, steps, state, result, error, lookup, searched, http, calls>>

run_node ==
    /\ \E r \in RunIds :
         /\ runs[r].pc \in Nodes
         /\ runs[r].steps < recursion_limit
         /\ runs' = [runs EXCEPT ![r] = RunNode(runs, r)]
    /\ UNCHANGED <<recursion_limit, single_vars, rp_vars, outside_vars>>

run_recursion_error ==
    /\ \E r \in RunIds :
         /\ runs[r].pc \in Nodes
         /\ runs[r].steps >= recursion_limit
         /\ runs' = [runs EXCEPT ![r] = RunAbort(runs[r])]
    /\ UNCHANGED <<recursion_limit, single_vars, rp_vars, outside_vars>>

run_return ==
    /\ \E r \in RunIds :
         /\ runs[r].pc = "END"
         /\ runs' = [runs EXCEPT ![r] = RunReturn(runs[r])]
    /\ UNCHANGED <<recursion_limit, single_vars, rp_vars, outside_vars>>

CInit ==
    /\ claim_in = None
    /\ recursion_limit \in RecursionLimits
    /\ tick = 0
    /\ pc = "idle"
    /\ steps = 0
    /\ state = None
    /\ result = None
    /\ error = ""
    /\ lookup = None
    /\ searched = None
    /\ http = None
    /\ calls = NoCallsYet
    /\ runs \in [RunIds -> { InitialRun(c, resp, d) :
                               c \in ConcurrentClaims, resp \in MockedResponses,
                               d \in Durations }]
    /\ RecoveryIdle
    /\ OutsideIdle

CNext ==
    \/ run_node
    \/ run_recursion_error
    \/ run_return

SpecConcurrent == CInit /\ [][CNext]_vars

-----------------------------------------------------------------------------
(* Properties of the deterministic engine (specification Spec) *)

\* The stages that have completed, in order: the nodes of the trace.
Stages == [i \in 1..Len(state.trace) |-> state.trace[i].node]
Completed(node) == \E i \in 1..Len(Stages) : Stages[i] = node
Finalized == { i \in 1..Len(Stages) : Stages[i] \in FinalizeNodes }
LastStage == Stages[Len(Stages)]
\* graph.invoke reached END (process_claim may have returned already).
GraphEnded == pc \in {"END", "returned"}

InvalidPath == <<"parse_claim", "validate_claim", "finalize_invalid">>
InflatedPath ==
    <<"parse_claim", "validate_claim", "check_policy", "price_check",
      "finalize_inflated">>
CoveredPath ==
    <<"parse_claim", "validate_claim", "check_policy", "price_check",
      "generate_recommendation", "finalize_decision">>

\* The Decision the finalizer of the last stage writes from the state.
DecisionOfLastStage ==
    CASE LastStage = "finalize_invalid" -> FinalizeInvalid(state)
      [] LastStage = "finalize_inflated" -> FinalizeInflated(state)
      [] LastStage = "finalize_decision" -> FinalizeDecision(state)

C2_RouteAfterValidate ==
    [][ /\ (pc = "validate_claim" /\ pc' \in Nodes) =>
              /\ (pc' = "check_policy") <=> state'.is_valid
              /\ ~state'.is_valid => pc' = "finalize_invalid"
        /\ (pc = "finalize_invalid" /\ pc' # pc) => pc' = "END"
        /\ (pc = "END" /\ Stages = InvalidPath /\ pc' # pc) => pc' = "returned"
      ]_vars

C2_Witness ==
    /\ pc = "END"
    /\ Stages = InvalidPath
    /\ ~state.is_valid

\* C3: the stage that runs after price_check is finalize_inflated exactly
\* when the price check set is_inflated; in every other case, the one of an
\* absent market estimate included, it is generate_recommendation.
C3_RouteAfterPriceCheck ==
    [][ (pc = "price_check" /\ pc' \in Nodes) =>
            /\ (pc' = "finalize_inflated") <=> state'.is_inflated
            /\ ~state'.is_inflated => pc' = "generate_recommendation"
            /\ state'.market_cost_estimate = None => pc' = "generate_recommendation"
      ]_vars

C3_Witness ==
    /\ pc = "generate_recommendation"
    /\ "market_cost_estimate" \in state.keys
    /\ state.market_cost_estimate = None
    /\ ~state.is_inflated

\* C4: the stages of a completed run are exactly one of the three sequences
\* parse, validate, finalize_invalid / parse, validate, check_policy,
\* price_check, finalize_inflated / parse, validate, check_policy,
\* price_check, generate_recommendation, finalize_decision; no stage runs
\* twice in a run; once validation has failed neither check_policy nor
\* price_check nor generate_recommendation runs, and once the price check
\* has found the cost inflated generate_recommendation does not run.
C4_StageSequences ==
    /\ GraphEnded => Stages \in {InvalidPath, InflatedPath, CoveredPath}
    /\ \A i, j \in 1..Len(Stages) : Stages[i] = Stages[j] => i = j
    /\ ("is_valid" \in state.keys /\ ~state.is_valid) =>
          \A n \in {"check_policy", "price_check", "generate_recommendation"} :
              pc # n /\ ~Completed(n)
    /\ ("is_inflated" \in state.keys /\ state.is_inflated) =>
          pc # "generate_recommendation" /\ ~Completed("generate_recommendation")

C4_Witness ==
    /\ pc = "returned"
    /\ Stages = CoveredPath

\* C7: the Decision finalize_invalid writes carries the claim's own
\* identifier, covered = false, deductible 0 and payout 0, and its notes
\* contain the validation reason; when the claim's policy is not in the
\* records the notes name the policy identifier, and when the policy has
\* dues outstanding the notes name the outstanding dues.
C7_InvalidDecision ==
    (pc = "END" /\ LastStage = "finalize_invalid") =>
        LET d == state.decision[1]
            found == lookup[1]
        IN  /\ d.claim_number = claim_in.claim_number
            /\ d.covered = FALSE
            /\ d.deductible = 0
            /\ d.recommended_payout = 0
            /\ state.validation_reason # <<>>
            /\ Contains(d.notes, state.validation_reason)
            /\ (found.exists /\ found.row = None) =>
                  /\ claim_in.policy_number \in Range(d.notes)
                  /\ Contains(d.notes, <<claim_in.policy_number, " not found in records">>)
            /\ (found.row # None
                  /\ found.row[1].premium_dues_remaining \in {"True", " TRUE "}) =>
                  /\ DuesText \in Range(d.notes)
                  /\ claim_in.policy_number \in Range(d.notes)

C7_Witness ==
    /\ pc = "END"
    /\ LastStage = "finalize_invalid"
    /\ lookup[1].row # None
    /\ lookup[1].row[1].premium_dues_remaining = " TRUE "
    /\ DuesText \in Range(state.decision[1].notes)

\* C8: the Decision finalize_inflated writes carries the claim's own
\* identifier, covered = false, deductible 0 and payout 0; its notes say
\* that the estimated repair cost appears inflated and contain the summary
\* the price check produced (market estimate, claimed cost, threshold).
C8_InflatedDecision ==
    (pc = "END" /\ LastStage = "finalize_inflated") =>
        LET d == state.decision[1] IN
        /\ d.claim_number = claim_in.claim_number
        /\ d.covered = FALSE
        /\ d.deductible = 0
        /\ d.recommended_payout = 0
        /\ Head(d.notes) = InflatedText
        /\ state.market_cost_info # <<>>
        /\ Contains(d.notes, state.market_cost_info)
        /\ VerdictInflated \in Range(d.notes)
        /\ state.market_cost_estimate # None
        /\ Contains(d.notes, Money(state.market_cost_estimate[1].sum,
                                   state.market_cost_estimate[1].n))
        /\ Contains(d.notes, Money(claim_in.estimated_repair_cost, 1))

C8_Witness ==
    /\ pc = "END"
    /\ LastStage = "finalize_inflated"
    /\ claim_in.estimated_repair_cost = 1600
    /\ state.market_cost_estimate = Some([sum |-> 3300, n |-> 3])
    /\ VerdictInflated \in Range(state.decision[1].notes)

\* C9: the Decision finalize_decision writes carries the claim's own
\* identifier and covered = true; its deductible is the recommendation's
\* deductible and its payout the recommendation's settlement amount, each
\* 0 when the recommendation left it out; its notes are the
\* recommendation's summary.
C9_CoveredDecision ==
    (pc = "END" /\ LastStage = "finalize_decision") =>
        LET d == state.decision[1]
            rec == state.recommendation[1]
        IN  /\ d.claim_number = claim_in.claim_number
            /\ d.covered = TRUE
            /\ d.deductible = (IF rec.deductible = None THEN 0 ELSE rec.deductible[1])
            /\ d.recommended_payout =
                  (IF rec.settlement_amount = None THEN 0 ELSE rec.settlement_amount[1])
            /\ d.notes = rec.recommendation_summary

C9_Witness ==
    /\ pc = "END"
    /\ LastStage = "finalize_decision"
    /\ state.recommendation[1].deductible = Some(500)
    /\ state.recommendation[1].settlement_amount = None
    /\ state.decision[1].deductible = 500
    /\ state.decision[1].recommended_payout = 0

-----------------------------------------------------------------------------
(* Properties of the output-recovery pipeline (specification SpecRecovery) *)

TierOrder == <<"tier1", "tier2", "tier3">>

RanTier(t) == t \in Range(rp_tiers)

C6_TiersInOrder ==
    /\ Len(rp_tiers) <= 3
    /\ rp_tiers = SubSeq(TierOrder, 1, Len(rp_tiers))
    /\ RanTier("tier2") => Tier1(raw_text).raised # ""
    /\ RanTier("tier3") => Tier2(raw_text, claim_in).raised # ""
    /\ (RanTier("tier1") /\ Tier1(raw_text).raised = "") =>
          /\ rp_pc = "returned"
          /\ rp_tiers = <<"tier1">>
          /\ rp_result = Tier1(raw_text).decision
    /\ (RanTier("tier2") /\ Tier2(raw_text, claim_in).raised = "") =>
          /\ rp_pc = "returned"
          /\ rp_tiers = <<"tier1", "tier2">>
          /\ rp_result = Tier2(raw_text, claim_in).decision
    /\ (raw_text = FencedExample /\ rp_pc # "tier1") =>
          /\ rp_pc = "returned"
          /\ rp_tiers = <<"tier1">>
          /\ rp_json = <<Open, ClaimCovered, Close>>
          /\ rp_result = Some(ClaimDecision("CLM-1", TRUE, 0, 0, None))

C6_Witness ==
    /\ raw_text = FencedExample
    /\ rp_pc = "returned"
    /\ rp_tiers = <<"tier1">>
    /\ rp_result[1].covered = TRUE

\* Text with no discernible structure: no brace, no fence, no "key": literal
\* pair.
NoStructure(text) ==
    /\ text # <<>>
    /\ \A i \in 1..Len(text) :
          text[i] \notin {Open, Close, Fence} /\ ~IsPairChunk(text[i])

\* C10: when the agent's final text has no discernible structure, the
\* recovery falls back to tier 3: all three tiers run, and the returned
\* Decision has covered = false and notes that state the recovery failure
\* and carry the truncated excerpt of the raw text.
C10_NoStructureFallsToTier3 ==
    (rp_pc = "returned" /\ NoStructure(raw_text)) =>
        /\ rp_tiers = TierOrder
        /\ rp_result[1].covered = FALSE
        /\ Head(rp_result[1].notes) = FallbackNote
        /\ Contains(rp_result[1].notes, Excerpt(raw_text, ExcerptLimit))

-----------------------------------------------------------------------------
(* Failures of a run (specification Spec) *)

\* The failures the taxonomy lets through to the caller: the corpus store is
\* unreachable, the step budget is spent.
ConfigurationFailure == "FileNotFoundError"
BudgetExceeded == "GraphRecursionError"

\* C13: process_claim ends in one of two ways only: it returns a valid
\* Decision, or it fails hard with a configuration failure (corpus store
\* unreachable) or a budget-exceeded failure; every other condition, an
\* unavailable policy record source among them, resolves into a returned
\* Decision.
C13_DecisionOrConfigOrBudget ==
    /\ pc = "returned" => (result # None /\ ClaimDecisionValid(result[1]))
    /\ pc = "raised" => error \in {ConfigurationFailure, BudgetExceeded}
    /\ (lookup # None /\ ~(lookup[1].exists /\ lookup[1].readable)) => pc # "raised"

-----------------------------------------------------------------------------
(* The validation (specification Spec) *)

\* The validation of the claim ran on a CSV it could read.
ValidatedOnRecords ==
    /\ Completed("validate_claim")
    /\ lookup # None
    /\ lookup[1].exists
    /\ lookup[1].readable

\* What the CSV row says, read off the cell and the window directly.
RowHasDues(row) == row.premium_dues_remaining \in {"True", " TRUE "}
RowCoversLoss(row) ==
    row.window[1] <= claim_in.date_of_loss /\ claim_in.date_of_loss <= row.window[2]

\* C15: validate_claim checks policy exists, no outstanding dues, date of
\* loss in the coverage window, in that order, and the reason is that of the
\* first failing check (dues win over an out-of-window date); it answers
\* (true, "valid") exactly when all three checks pass.
C15_FirstFailingCheck ==
    ValidatedOnRecords =>
        LET row == lookup[1].row
            reason == state.validation_reason
        IN  /\ row = None =>
                  /\ ~state.is_valid
                  /\ reason = ReasonNotFound(claim_in.policy_number)
            /\ (row # None /\ RowHasDues(row[1])) =>
                  /\ ~state.is_valid
                  /\ Contains(reason, <<DuesText>>)
                  /\ ~Contains(reason, <<OutsideText>>)
            /\ (row # None /\ ~RowHasDues(row[1]) /\ ~RowCoversLoss(row[1])) =>
                  /\ ~state.is_valid
                  /\ Contains(reason, <<OutsideText>>)
            /\ state.is_valid <=>
                  (row # None /\ ~RowHasDues(row[1]) /\ RowCoversLoss(row[1]))
            /\ state.is_valid <=> reason = <<"valid">>

C15_Witness ==
    /\ ValidatedOnRecords
    /\ lookup[1].row # None
    /\ RowHasDues(lookup[1].row[1])
    /\ ~RowCoversLoss(lookup[1].row[1])
    /\ ~state.is_valid
    /\ Contains(state.validation_reason, <<DuesText>>)

\* C16: both ends of the coverage window are inclusive: for a policy without
\* dues and the window [s, e], a date of loss equal to s or to e validates,
\* and the day after e (or before s) fails with a reason containing "outside".
C16_WindowEndsInclusive ==
    (ValidatedOnRecords /\ lookup[1].row # None /\ ~RowHasDues(lookup[1].row[1])) =>
        LET s == lookup[1].row[1].window[1]
            e == lookup[1].row[1].window[2]
            d == claim_in.date_of_loss
        IN  /\ d \in {s, e} =>
                  (state.is_valid /\ state.validation_reason = <<"valid">>)
            /\ d \in {s - 1, e + 1} =>
                  (~state.is_valid /\ Contains(state.validation_reason, <<OutsideText>>))

C16_Witness ==
    /\ ValidatedOnRecords
    /\ lookup[1].row # None
    /\ ~RowHasDues(lookup[1].row[1])
    /\ lookup[1].row[1].window[1] < lookup[1].row[1].window[2]
    /\ claim_in.date_of_loss = lookup[1].row[1].window[2]
    /\ state.is_valid

\* C17: when the policy record source cannot be loaded, validate_claim does
\* not raise: it returns invalid, with a reason that tells "source
\* unavailable" apart from "policy not found".
C17_SourceUnavailableIsInvalid ==
    (lookup # None /\ ~(lookup[1].exists /\ lookup[1].readable)) =>
        /\ Completed("validate_claim")
        /\ ~state.is_valid
        /\ state.validation_reason # ReasonNotFound(claim_in.policy_number)
        /\ state.validation_reason # <<>>

-----------------------------------------------------------------------------
(* The price check and the retrieval (specification Spec) *)

\* The search gave nothing to price the claim with: it failed, it returned no
\* snippet, or no snippet mentions an amount in the plausible range.
PlausibleAmounts(search) ==
    SelectSeq(Flatten(search.snippets),
              LAMBDA a : MinPlausible <= a /\ a <= MaxPlausible)
NoPriceData(search) == search.raised \/ PlausibleAmounts(search) = <<>>

\* The search whose snippets mention 1000, 1100, 1200 and an implausible 10.
ThreeAmounts == [raised |-> FALSE, snippets |-> << <<1000, 1100>>, <<1200, 10>> >>]

\* C18: with a market estimate, the claim is inflated exactly when the claimed
\* cost is strictly above estimate * (1 + threshold); for the amounts 1000,
\* 1100, 1200 and the threshold 0.40 the estimate is 1100 and the cut-off 1540:
\* 1600 is inflated, 1500 and exactly 1540 are not.
C18_InflatedIffAboveThreshold ==
    (Completed("price_check") /\ state.market_cost_estimate # None) =>
        LET est == state.market_cost_estimate[1]
            cost == claim_in.estimated_repair_cost
        IN  /\ state.is_inflated <=>
                  cost * est.n * 100 > est.sum * (100 + ThresholdPct)
            /\ searched = Some(ThreeAmounts) =>
                  /\ est = [sum |-> 3300, n |-> 3]
                  /\ cost = 1600 => state.is_inflated
                  /\ cost \in {1500, 1540} => ~state.is_inflated

C18_Witness ==
    /\ Completed("price_check")
    /\ searched = Some(ThreeAmounts)
    /\ claim_in.estimated_repair_cost = 1540
    /\ ~state.is_inflated
    /\ pc = "generate_recommendation"

\* C19: when the price capability fails, returns no results, or returns no
\* amount in the plausible range, the estimate is absent and the claim is not
\* inflated (no estimate is made up, nothing is raised), and the run goes on
\* to generate_recommendation as for a priced claim that is not inflated.
C19_NoEstimateNotInflated ==
    searched # None =>
        /\ Completed("price_check")
        /\ NoPriceData(searched[1]) =>
              /\ state.market_cost_estimate = None
              /\ ~state.is_inflated
        /\ state.market_cost_estimate # None =>
              /\ ~NoPriceData(searched[1])
              /\ state.market_cost_estimate[1].n = Len(PlausibleAmounts(searched[1]))
              /\ state.market_cost_estimate[1].sum = SumSeq(PlausibleAmounts(searched[1]))
        /\ ~state.is_inflated =>
              /\ (LastStage = "price_check" /\ pc # "raised") =>
                    pc = "generate_recommendation"
              /\ Len(Stages) > 4 => Stages[5] = "generate_recommendation"

C19_Witness ==
    /\ searched # None
    /\ searched[1].raised
    /\ state.market_cost_estimate = None
    /\ Completed("generate_recommendation")

\* The place of the first occurrence of x in s.
FirstIndex(s, x) == CHOOSE k \in 1..Len(s) : s[k] = x /\ \A m \in 1..(k - 1) : s[m] # x

\* C20: retrieve_policy_text returns the snippets of all queries flattened in
\* query order and rank order, keeping the first occurrence of each exact
\* text: no text twice, every entry is a hit of some query, every hit is
\* there, and the order is the first-seen order.
C20_FirstSeenNoDuplicates ==
    Completed("check_policy") =>
        LET text == state.policy_text
            queries == state.policy_queries
            hits == Flatten([i \in 1..Len(queries) |-> StoreHits[queries[i]]])
        IN  /\ \A i, j \in 1..Len(text) : text[i] = text[j] => i = j
            /\ Range(text) \subseteq Range(hits)
            /\ text # <<>> => Range(text) = Range(hits)
            /\ \A i, j \in 1..Len(text) :
                  i < j => FirstIndex(hits, text[i]) < FirstIndex(hits, text[j])

C20_Witness ==
    /\ Completed("check_policy")
    /\ state.policy_queries = <<"q-deductible", "q-collision">>
    /\ state.policy_text = <<"Section 7", "Section 9", "Section 4">>

-----------------------------------------------------------------------------
(* The second and third tier (specifications SpecFuzzy, SpecRecovery) *)

Mentions(chunk) == chunk \in Range(raw_text)
ReturnedByTier(tier) == rp_pc = "returned" /\ rp_tiers[Len(rp_tiers)] = tier

\* C11: tier 2 looks for covered, deductible, recommended_payout and notes
\* each on its own, anywhere in the text; a field that is not found gets its
\* default (covered = false, 0.0, the fuzzy-parsing note), the claim id is the
\* submitted claim's, and a text with only some fields still yields a
\* Decision: a text with only "covered": false gives covered = false and both
\* amounts 0.0.
C11_FuzzyDefaults ==
    /\ rp_pc # "raised"
    /\ ReturnedByTier("tier2") =>
          LET d == rp_result[1] IN
          /\ d.claim_number = claim_in.claim_number
          /\ d.covered <=> Mentions(CoveredTrue)
          /\ d.deductible = IF Mentions(Deductible500) THEN 500 ELSE 0
          /\ d.recommended_payout = IF Mentions(Payout3000) THEN 3000 ELSE 0
          /\ d.notes = IF Mentions(NotesOk) THEN <<"ok">> ELSE <<FuzzyNote>>
    /\ "tier3" \in Range(rp_tiers) => Mentions(DeductibleBad)
    /\ (rp_pc = "returned" /\ raw_text = <<CoveredFalse>>) =>
          rp_result = Some(ClaimDecision(claim_in.claim_number, FALSE, 0, 0,
                                         <<FuzzyNote>>))

C11_Witness ==
    /\ raw_text = <<CoveredFalse>>
    /\ ReturnedByTier("tier2")
    /\ ~rp_result[1].covered
    /\ rp_result[1].deductible = 0
    /\ rp_result[1].recommended_payout = 0

PrefixChars(text, k) == TotalChars(SubSeq(text, 1, k))

\* ex is text[:limit]: the first k chunks whole, and of chunk k + 1 the
\* characters that still fit, if it does not fit whole.
IsExcerptOf(ex, text, limit) ==
    \E k \in 0..Len(text) :
        /\ PrefixChars(text, k) <= limit
        /\ \/ /\ ex = SubSeq(text, 1, k)
              /\ k = Len(text) \/ PrefixChars(text, k) = limit
           \/ /\ k < Len(text)
              /\ PrefixChars(text, k) < limit
              /\ PrefixChars(text, k + 1) > limit
              /\ ex = SubSeq(text, 1, k)
                      \o <<text[k + 1], "[:", ToString(limit - PrefixChars(text, k)), "]">>

\* C12: the tier-3 fallback has the claim's id, covered = false, deductible
\* and payout 0.0, and notes that say the output could not be parsed followed
\* by the first 300 characters of the raw output at most, whatever the length
\* of the output.
C12_FallbackDecision ==
    ReturnedByTier("tier3") =>
        LET d == rp_result[1] IN
        /\ d.claim_number = claim_in.claim_number
        /\ ~d.covered
        /\ d.deductible = 0
        /\ d.recommended_payout = 0
        /\ Head(d.notes) = FallbackNote
        /\ IsExcerptOf(Tail(d.notes), raw_text, ExcerptLimit)

C12_Witness ==
    /\ raw_text = <<Padding, Prose, DeductibleBad>>
    /\ ReturnedByTier("tier3")
    /\ rp_result[1].notes = <<FallbackNote, Padding, Prose, "[:", "19", "]">>

-----------------------------------------------------------------------------
(* Retrieval outcomes, the trace and the step limit (specification Spec) *)

SeparatorAt(notes) == CHOOSE i \in 1..Len(notes) : notes[i] = TraceSeparator
TraceBlock(notes) == SubSeq(notes, SeparatorAt(notes) + 1, Len(notes))
BlockStages(block) ==
    LET marks == SelectSeq([k \in 1..Len(block) |-> k], LAMBDA k : block[k] = "  [")
    IN  [n \in 1..Len(marks) |-> block[marks[n] + 1]]
BlockLines(block) == 1 + Cardinality({k \in 1..Len(block) : block[k] = "\n"})

\* C22: attaching the trace is purely additive: the block has one line per
\* TraceEntry in trace order, it follows the literal separator
\* "--- Processing Trace ---", the notes there were before stand unchanged in
\* front of the separator, and claim_number, covered, deductible and
\* recommended_payout are what they were before.
C22_TraceAttachIsAdditive ==
    pc = "returned" =>
        LET before == DecisionOfLastStage
            after == result[1]
            n == Len(before.notes)
        IN  /\ after.claim_number = before.claim_number
            /\ after.covered = before.covered
            /\ after.deductible = before.deductible
            /\ after.recommended_payout = before.recommended_payout
            /\ SubSeq(after.notes, 1, n) = before.notes
            /\ TraceSeparator \notin Range(before.notes)
            /\ TraceSeparator \in Range(after.notes)
            /\ SeparatorAt(after.notes) = IF n = 0 THEN 1 ELSE n + 2
            /\ n # 0 => after.notes[n + 1] = "\n\n"
            /\ BlockStages(TraceBlock(after.notes)) = Stages
            /\ BlockLines(TraceBlock(after.notes)) = Len(state.trace)

C22_Witness ==
    /\ pc = "returned"
    /\ Stages = CoveredPath
    /\ SubSeq(result[1].notes, 1, 3)
          = <<"Approved under collision.", "\n\n", TraceSeparator>>
    /\ result[1].recommended_payout = 3000

\* C24: each stage execution appends exactly one TraceEntry: a step of a
\* stage leaves the trace it found followed by one entry that names the stage
\* and carries its duration; no other step touches the trace, and no entry
\* is changed, removed or moved.
C24_OneEntryPerStage ==
    [][ LET old == state.trace
            new == state'.trace
        IN  /\ Len(new) \in {Len(old), Len(old) + 1}
            /\ SubSeq(new, 1, Len(old)) = old
            /\ (steps' = steps + 1) <=> (Len(new) = Len(old) + 1)
            /\ Len(new) = Len(old) + 1 =>
                  /\ new[Len(new)].node = pc
                  /\ new[Len(new)].elapsed = tick
      ]_vars

C24_Witness ==
    /\ pc = "returned"
    /\ Len(state.trace) = 6
    /\ Stages = CoveredPath

\* C25: the steps of a run are bounded by recursion_limit: a run that would
\* take more is aborted with a fatal failure and returns no Decision; no run
\* is cut short into a Decision.
C25_StepLimitAborts ==
    /\ steps <= recursion_limit
    /\ Len(Stages) = steps
    /\ error = BudgetExceeded =>
          /\ pc = "raised"
          /\ steps = recursion_limit
          /\ result = None
          /\ state.decision = None
          /\ http # None => (http[1].status = 500 /\ http[1].body = None)
    /\ GraphEnded =>
          /\ Len(Stages) <= recursion_limit
          /\ LastStage \in FinalizeNodes
          /\ Stages \in {InvalidPath, InflatedPath, CoveredPath}

C25_Witness ==
    /\ error = BudgetExceeded
    /\ recursion_limit = TightRecursionLimit
    /\ Len(Stages) = TightRecursionLimit
    /\ pc = "raised"

\* The search whose snippets mention amounts at and just outside the ends of
\* the plausible range, and the one with amounts outside only.
BoundaryAmounts == [raised |-> FALSE, snippets |-> << <<49, 50>>, <<200000, 200001>> >>]
OutOfRangeAmounts == [raised |-> FALSE, snippets |-> << <<49>>, <<200001>> >>]

\* C30: the market estimate is the arithmetic mean of exactly the extracted
\* amounts a with 50 <= a <= 200000 (50 and 200000 are kept, anything below
\* or above is dropped), and there is an estimate exactly when some extracted
\* amount lies in that range.
C30_MeanOfPlausible ==
    (searched # None /\ ~searched[1].raised) =>
        LET kept == SelectSeq(Flatten(searched[1].snippets),
                              LAMBDA a : 50 <= a /\ a <= 200000)
            est == state.market_cost_estimate
        IN  /\ est # None <=> kept # <<>>
            /\ est # None => est[1] = [sum |-> SumSeq(kept), n |-> Len(kept)]
            /\ searched[1] = BoundaryAmounts => est = Some([sum |-> 200050, n |-> 2])
            /\ searched[1] = OutOfRangeAmounts => est = None

C30_Witness ==
    /\ searched = Some(BoundaryAmounts)
    /\ state.market_cost_estimate = Some([sum |-> 200050, n |-> 2])
    /\ Completed("price_check")

-----------------------------------------------------------------------------
(* The decision of the autonomous strategy (specification SpecRecovery) *)

\* C23: the Decision the deterministic engine returns and the Decision the
\* autonomous strategy returns both carry the human-readable trace of the
\* stages that ran, appended to their notes.
C23_BothStrategiesAttachTrace ==
    /\ pc = "returned" => TraceSeparator \in Range(result[1].notes)
    /\ rp_pc = "returned" => TraceSeparator \in Range(rp_result[1].notes)

-----------------------------------------------------------------------------
(* Amounts and the first tier's selection (SpecFuzzy, SpecRecovery) *)

\* C28: every Decision returned has deductible >= 0 and recommended_payout
\* >= 0, each 0 when the output gives none; output that carries a negative
\* amount is never turned into a Decision with a negative field, by no tier.
C28_AmountsNonNegative ==
    /\ result # None =>
          (result[1].deductible >= 0 /\ result[1].recommended_payout >= 0)
    /\ rp_result # None =>
          /\ rp_result[1].deductible >= 0
          /\ rp_result[1].recommended_payout >= 0
          /\ ~Mentions(Deductible500) => rp_result[1].deductible = 0
          /\ ~Mentions(Payout3000) => rp_result[1].recommended_payout = 0
    /\ (rp_pc = "returned" /\ raw_text = PositiveObject) =>
          (rp_tiers = <<"tier1">> /\ rp_result[1].deductible = 500)
    /\ (rp_pc = "returned" /\ raw_text = NegativeObject) =>
          (rp_tiers = <<"tier1", "tier2">> /\ rp_result[1].deductible = 0)

C28_Witness ==
    /\ raw_text = NegativeObject
    /\ ReturnedByTier("tier2")
    /\ rp_result[1].deductible = 0
    /\ rp_result[1].covered

\* The braces opened and not yet closed after text[i..k].
BraceDepth(text, i, k) ==
    Cardinality({m \in i..k : text[m] = Open}) - Cardinality({m \in i..k : text[m] = Close})

\* The closing brace that matches the opening brace at i (0 if none).
MatchingClose(text, i) ==
    LET js == { j \in (i + 1)..Len(text) : text[j] = Close /\ BraceDepth(text, i, j) = 0 }
    IN  IF js = {} THEN 0 ELSE Min(js)

BalancedStarts(text) ==
    { i \in 1..Len(text) : text[i] = Open /\ MatchingClose(text, i) # 0 }

\* The first balanced brace-delimited object of the text.
FirstBalancedObject(text) ==
    LET i == Min(BalancedStarts(text)) IN Slice(text, i, MatchingClose(text, i))

\* C29: the first tier selects, for every text, the object inside a fenced
\* code block when there is one, and otherwise the first balanced
\* brace-delimited object, whole from its opening brace to the matching
\* closing brace also when objects are nested in it (and the text itself when
\* it has neither).
C29_SelectsFencedOrBalanced ==
    rp_tiers # <<>> =>
        rp_json =
            IF FenceMatches(raw_text) # {}
            THEN LET m == FirstMatch(FenceMatches(raw_text))
                 IN  Slice(raw_text, m[1] + 1, m[2])
            ELSE IF BalancedStarts(raw_text) # {}
            THEN FirstBalancedObject(raw_text)
            ELSE raw_text

-----------------------------------------------------------------------------
(* Two calls of one pipeline instance (specification SpecConcurrent) *)

Finished(run) == run.pc \in {"returned", "raised"}
RunStages(run) == [i \in 1..Len(run.state.trace) |-> run.state.trace[i].node]
\* The trace without its durations.
Untimed(trace) == [i \in 1..Len(trace) |-> [node |-> trace[i].node, extra |-> trace[i].extra]]

\* The notes in front of the separator.
BusinessNotes(notes) ==
    LET i == SeparatorAt(notes)
    IN  IF i > 1 /\ notes[i - 1] = "\n\n" THEN SubSeq(notes, 1, i - 2)
        ELSE SubSeq(notes, 1, i - 1)

\* C26: two runs of the engine on identical claims with identical capability
\* responses take the same path and end alike; when they return, their
\* Decisions have the same claim_number, covered, deductible,
\* recommended_payout and business notes, and their traces differ in the
\* durations at most.
C26_DeterministicInInputs ==
    \A a, b \in RunIds :
        (/\ runs[a].claim = runs[b].claim
         /\ runs[a].resp = runs[b].resp
         /\ Finished(runs[a])
         /\ Finished(runs[b])) =>
            /\ runs[a].pc = runs[b].pc
            /\ runs[a].error = runs[b].error
            /\ RunStages(runs[a]) = RunStages(runs[b])
            /\ Untimed(runs[a].state.trace) = Untimed(runs[b].state.trace)
            /\ runs[a].pc = "returned" =>
                  LET da == runs[a].result[1]
                      db == runs[b].result[1]
                  IN  /\ da.claim_number = db.claim_number
                      /\ da.covered = db.covered
                      /\ da.deductible = db.deductible
                      /\ da.recommended_payout = db.recommended_payout
                      /\ BusinessNotes(da.notes) = BusinessNotes(db.notes)
                      /\ runs[a].tick = runs[b].tick => da = db

C26_Witness ==
    /\ runs[1].claim = runs[2].claim
    /\ runs[1].resp = runs[2].resp
    /\ runs[1].tick # runs[2].tick
    /\ runs[1].pc = "returned"
    /\ runs[2].pc = "returned"
    /\ runs[1].result[1].covered
    /\ runs[1].result # runs[2].result

\* The run record a call has after n steps when it is the only call.
RECURSIVE Alone(_, _, _)
Alone(run0, n, limit) ==
    IF n = 0 THEN run0 ELSE RunStep(<<Alone(run0, n - 1, limit)>>, 1, limit)

\* C27: claims processed at the same time by one pipeline instance are
\* independent: under every interleaving of their stages each claim's state,
\* trace and Decision are the ones it has when processed alone, no trace
\* entry or intermediate result of one claim is in the other's state, and
\* the shared configuration is only read.
C27_ConcurrentRunsIndependent ==
    /\ [](\A r \in RunIds :
            /\ runs[r] = Alone(InitialRun(runs[r].claim, runs[r].resp, runs[r].tick),
                               runs[r].n, recursion_limit)
            /\ \A i \in 1..Len(runs[r].state.trace) :
                  runs[r].state.trace[i].elapsed = runs[r].tick
            /\ runs[r].state.claim # None => runs[r].state.claim[1] = runs[r].claim
            /\ runs[r].result # None =>
                  runs[r].result[1].claim_number = runs[r].claim.claim_number)
    /\ [][recursion_limit' = recursion_limit]_vars

C27_Witness ==
    /\ runs[1].claim # runs[2].claim
    /\ runs[1].tick # runs[2].tick
    /\ runs[1].pc = "returned"
    /\ runs[2].pc = "returned"
    /\ RunStages(runs[1]) = CoveredPath
    /\ RunStages(runs[2]) = InflatedPath

-----------------------------------------------------------------------------
(* Frame of the stages (specification Spec) *)

StateKeys ==
    {"claim_data", "claim", "is_valid", "validation_reason", "policy_queries",
     "policy_text", "market_cost_estimate", "is_inflated", "market_cost_info",
     "recommendation", "decision", "trace"}

\* The keys of the dict a stage returns, the trace apart.
ResultKeys(node) ==
    CASE node = "parse_claim" -> {"claim"}
      [] node = "validate_claim" -> {"is_valid", "validation_reason"}
      [] node = "check_policy" -> {"policy_queries", "policy_text"}
      [] node = "price_check" ->
            {"market_cost_estimate", "is_inflated", "market_cost_info"}
      [] node = "generate_recommendation" -> {"recommendation"}
      [] node \in FinalizeNodes -> {"decision"}

\* The keys whose presence or value differs between two workflow states.
ChangedKeys(st, st2) ==
    { k \in StateKeys : (k \in st.keys) # (k \in st2.keys) \/ st[k] # st2[k] }

\* C31: the claim is created once by parse_claim and never changed afterwards.
\* Every stage after parse_claim leaves the claim held in the workflow state
\* (and the submitted claim data) unchanged, and each stage writes only its own
\* result keys and the trace: validate_claim is_valid and the reason,
\* check_policy the queries and the policy text, price_check the estimate, the
\* flag and the summary, generate_recommendation the recommendation, the
\* finalize stages the decision.  parse_claim itself sets the claim to the
\* submitted one.
C31_StagesWriteOwnKeys ==
    [][ (pc \in Nodes /\ state' # state) =>
          /\ ChangedKeys(state, state') \subseteq ResultKeys(pc) \cup {"trace"}
          /\ pc = "parse_claim" => state'.claim = Some(claim_in)
          /\ pc # "parse_claim" =>
                /\ "claim" \in state.keys
                /\ state'.claim = state.claim
                /\ state'.claim = Some(claim_in) ]_vars

\* A run went through all six stages of the covered path and still holds the
\* claim parse_claim created.
C31_Witness ==
    /\ pc = "END"
    /\ Stages = CoveredPath
    /\ state.claim = Some(claim_in)
    /\ state.keys = StateKeys

-----------------------------------------------------------------------------
(* The claim number of a Decision (specifications Spec, SpecRecovery) *)

\* C32: every Decision process_claim returns, by either strategy and through
\* any recovery tier, carries the claim_number of the claim that was
\* submitted, whatever claim_number the agent's output contains.  The
\* finalizers of the deterministic engine, tier 2 and tier 3 take it from the
\* submitted claim; tier 1 returns ClaimDecision(**data) with the
\* claim_number of the agent's JSON object, so an answer for CLM-1 to a run
\* for CLM-2 is returned as it stands.
C32_CarriesSubmittedClaimNumber ==
    /\ result # None => result[1].claim_number = claim_in.claim_number
    /\ rp_result # None => rp_result[1].claim_number = claim_in.claim_number

-----------------------------------------------------------------------------
(* Rejections and amounts (specifications Spec, SpecFuzzy) *)

\* C33: every Decision with covered = false that process_claim of either
\* strategy returns has deductible 0 and recommended_payout 0: a rejection
\* never carries a payout, whether it comes from finalize_invalid, from
\* finalize_inflated or from any tier of the recovery pipeline.  The two
\* rejecting finalizers and tier 3 write the zeros themselves; tier 1 and
\* tier 2 take covered and the two amounts from the agent's text
\* independently of each other.
C33_RejectionPaysNothing ==
    /\ (result # None /\ ~result[1].covered) =>
          result[1].deductible = 0 /\ result[1].recommended_payout = 0
    /\ (rp_result # None /\ ~rp_result[1].covered) =>
          rp_result[1].deductible = 0 /\ rp_result[1].recommended_payout = 0

-----------------------------------------------------------------------------
(* When the fallback is returned (specification SpecNumbers) *)

\* The literal re.search matches for the key (the leftmost run of digits and
\* dots after the key) is not a number float() accepts.
MatchedLiteralInvalid(key) ==
    LET fs == AllFields(raw_text) IN
    \E i \in 1..Len(fs) :
        /\ fs[i].key = key
        /\ fs[i].kind = "badnum"
        /\ \A j \in 1..(i - 1) : ~(fs[j].key = key /\ fs[j].kind \in {"num", "badnum"})

Tier1Failed == "tier2" \in Range(rp_tiers)
Tier2Raised == "tier2" \in Range(rp_tiers) /\ rp_pc # "tier2" /\ ~ReturnedByTier("tier2")

\* C34: the tier-3 fallback Decision is returned if and only if tier 1 fails
\* and tier 2 raises, and tier 2 raises only when a matched deductible or
\* recommended_payout literal (a run of digits and dots) is not a valid
\* number; in every other case where tier 1 fails, the Decision returned is
\* tier 2's.  No call of _parse_decision raises.
C34_FallbackIffTier2Raises ==
    /\ rp_pc # "raised"
    /\ rp_pc = "returned" =>
          /\ ReturnedByTier("tier3") <=> (Tier1Failed /\ Tier2Raised)
          /\ Tier2Raised <=>
                /\ Tier1Failed
                /\ \/ MatchedLiteralInvalid("deductible")
                   \/ MatchedLiteralInvalid("recommended_payout")
          /\ (Tier1Failed /\ ~Tier2Raised) =>
                /\ ReturnedByTier("tier2")
                /\ rp_result = Tier2(raw_text, claim_in).decision
          /\ ReturnedByTier("tier3") => rp_result = Some(Tier3(raw_text, claim_in))

\* The fallback was returned for an answer whose deductible is a number and
\* whose payout literal is not.
C34_Witness ==
    /\ ReturnedByTier("tier3")
    /\ raw_text = <<Deductible500, PayoutBad>>
    /\ rp_tiers = <<"tier1", "tier2", "tier3">>

-----------------------------------------------------------------------------
(* Termination of the deterministic engine (specification SpecLive) *)

\* A capability call (or the claim parser) raised instead of returning.
CapabilityRaised == pc = "raised" /\ error # "GraphRecursionError"

\* C35: provided every capability call returns, every run of the
\* deterministic engine eventually reaches one of the terminal stages
\* finalize_invalid, finalize_inflated or finalize_decision and then ends.
\* The graph has no cycle (no stage runs twice), a run executes at most six
\* stages, and therefore a run under the default step limit of 25 never ends
\* with a budget-exceeded failure.
C35_ReachesTerminalStage ==
    /\ [](/\ steps <= 6
          /\ Len(Stages) = steps
          /\ \A i, j \in 1..Len(Stages) : i # j => Stages[i] # Stages[j]
          /\ recursion_limit = DefaultRecursionLimit => error # "GraphRecursionError")
    /\ (recursion_limit = DefaultRecursionLimit) =>
          <>(\/ CapabilityRaised
             \/ /\ pc = "returned"
                /\ LastStage \in FinalizeNodes
                /\ result # None)

\* A run under the default limit went through the six stages of the longest
\* path and returned.
C35_Witness ==
    /\ pc = "returned"
    /\ recursion_limit = DefaultRecursionLimit
    /\ steps = 6
    /\ LastStage = "finalize_decision"

-----------------------------------------------------------------------------
(* The two price tools (specification SpecPriceTool) *)

\* C36: the autonomous strategy's price tool and the deterministic
\* strategy's price tool are the same capability.  For every claim, threshold
\* and search outcome (failure, no results, results without plausible
\* amounts, results with amounts) estimate_repair_cost and
\* web_search_repair_cost yield the same market estimate, the same inflation
\* flag and the same summary.
C36_SamePriceCapability ==
    (tool # None /\ tool[1].estimate # None /\ tool[1].web # None) =>
        LET e == tool[1].estimate[1]
            w == tool[1].web[1]
        IN  /\ json_loads_estimate(e.market_estimate) = w.market_estimate
            /\ e.is_inflated = w.is_inflated
            /\ e.summary = w.info

\* Both tools answered for a search whose amounts lie on the two ends of the
\* plausible range and just outside it.
C36_Witness ==
    /\ tool # None
    /\ tool[1].estimate # None /\ tool[1].web # None
    /\ tool[1].search.raised = FALSE
    /\ tool[1].search.snippets = << <<49, 50>>, <<200000, 200001>> >>
    /\ tool[1].threshold_pct = ThresholdPct
    /\ tool[1].web[1].market_estimate = Some([sum |-> 200050, n |-> 2])
    /\ tool[1].estimate[1].market_estimate = JsonNumber([sum |-> 200050, n |-> 2])

-----------------------------------------------------------------------------
(* The frontend's API client (specification SpecClient) *)

Sent == client[1].sent
Served == { i \in 1..Len(Sent) : Sent[i].served }
ClientError(outcome) == outcome.exc = "HTTPError" /\ outcome.status < 500
Success(outcome) == outcome.exc = ""

\* C37: the external-call wrapper retries only idempotent GET-style calls.  A
\* claim submission (POST /api/v1/claims/process) is sent at most once per
\* process_claim call, so a claim is never processed a second time because of
\* a retry after a decision was produced.  _post goes through the same
\* _request loop as _get: after a 5xx answer, a connection error or a timeout
\* the POST is sent again.
C37_SubmissionSentOnce ==
    (client # None /\ client[1].method = "POST") =>
        /\ Len(Sent) <= 1
        /\ Cardinality(Served) <= 1

-----------------------------------------------------------------------------
(* The covered flag of tier 2 (specification SpecCovered) *)

\* The text holds a "covered": true literal, in any case and spacing.
SaysCoveredTrue == Mentions(CoveredTrue) \/ Mentions(CoveredTrueLoose)

\* C39: tier 2 sets covered = true if and only if the text contains the
\* literal "covered": true (case-insensitive, any whitespace around the
\* colon), also when a "covered": false literal appears in the same text,
\* before or after it; in every other case covered is false.
C39_CoveredIffTrueLiteral ==
    ReturnedByTier("tier2") => (rp_result[1].covered <=> SaysCoveredTrue)

\* Tier 2 answered covered = true for a text that says false first and true,
\* in capitals, after it.
C39_Witness ==
    /\ ReturnedByTier("tier2")
    /\ raw_text = <<CoveredFalse, Prose, CoveredTrueLoose>>
    /\ rp_result[1].covered

====
